---- MODULE Spec2Model ----
(***************************************************************************)
(* A model of dp::stop_source / stop_token / stop_callback, of             *)
(* dp::condition_variable_any and of dp::lock_free_shared_ptr.             *)
(*                                                                         *)
(* Every thread is a small program counter machine: one action per atomic  *)
(* step of the C++ code (an atomic load or store, a mutex acquisition, a   *)
(* block of code executed while a mutex is held).                          *)
(***************************************************************************)
EXTENDS Integers, Sequences, FiniteSets

\* ------------------------------------------------------------------ bounds
\* request_stop() calls made by each requesting thread
MaxRequests == 2
\* stop states (std::make_shared<detail::stop_state>()) that may be allocated
MaxStates == 2
\* queue::push calls made by each notifying thread
MaxPushes == 2
\* objects a lock_free_shared_ptr may point to
NumPointees == 2
\* swap calls made by each swapping thread
MaxSwaps == 1
\* store, exchange and compare_exchange calls made by each storing thread
MaxStores == 1
\* load calls made by each loading thread
MaxLoads == 2

\* ----------------------------------------------------------------- threads
Requesters == {"r1", "r2"}
Owners     == {"o1", "o2"}
Waiters    == {"w1"}
Notifiers  == {"n1"}
Swappers   == {"s1", "s2"}
Storers    == {"st1"}
Loaders    == {"l1"}
PlainWaiters == {"p1", "p2"}
TimedPlain   == {"tp1"}
TimedWaiters == {"tw1"}
JThreads   == {"j1"}
\* the owners of stop_callbacks when three callbacks are registered
CallbackOwners == Owners \cup {"o3"}
\* the jthread objects: the one constructed with a function, and a second one
\* that is default constructed
JHandles   == JThreads \cup {"j2"}
Threads    == JHandles \cup CallbackOwners \cup Requesters \cup Owners \cup Waiters \cup Notifiers
                  \cup Swappers \cup Storers \cup Loaders \cup PlainWaiters
                  \cup TimedPlain \cup TimedWaiters

\* the lock_free_shared_ptr objects that are swapped
Handles    == {"a", "b"}

NoThread == "none"
\* std::optional<std::size_t>: the empty optional, and the one holding id
nullopt  == << >>
some(id) == <<id>>
\* the null std::shared_ptr<detail::stop_state>
null     == 0
States   == 1..MaxStates

VARIABLES
    pc,                     \* position of each thread in its code
    m_state,                \* stop_token::m_state of the handle each thread holds
    origin,                 \* the thread whose stop_source() made the handle's state
    nstates,                \* number of stop states allocated so far
    m_stop_requested,       \* stop_state::m_stop_requested, per state
    m_mut,                  \* stop_state::m_mut, per state: the thread that holds it
    m_callbacks,            \* stop_state::m_callbacks, per state: list of [id, fn]
    m_current_callback_id,  \* stop_state::m_current_callback_id, per state
    m_callback_id,          \* stop_callback::m_callback_id of each thread's callback
    idx,                    \* position of execute_callbacks' range-for, per thread
    calls,                  \* request_stop() calls each thread has completed
    retval,                 \* what the last request_stop() of each thread returned
    started,                \* times the action of each thread's callback was entered
    finished,               \* times the action of each thread's callback returned
    deregistered,           \* whether deregister_callback ran for the thread's callback
    snap,                   \* callbacks registered when request_stop got the list lock
    cv_mut,                 \* *condition_variable_any::m_mut: the thread that holds it
    m_cond,                 \* threads blocked in condition_variable_any::m_cond
    lck,                    \* the caller's lock (queue::m_mut): the thread that holds it
    m_queue,                \* number of items in queue::m_queue (the predicate's data)
    last_pred,              \* value of the last pred() evaluated by each waiter
    wret,                   \* what wait(lock, token, pred) returned to each waiter
    pushes,                 \* queue::push calls each notifier has made
    expired,                \* whether the end_time of each thread's timed wait has passed
    status,                 \* what m_cond.wait_until returned to each thread
    cvret,                  \* what wait_until(lock, end_time) returned to each thread
    stop,                   \* the local stop of wait_until(lock, token, end_time, pred)
    m_ptr,                  \* lock_free_shared_ptr::m_ptr of each handle: its pointee
    init_ptr,               \* the pointee each handle held at the start
    this_h,                 \* swap: the handle a thread's swap was called on (this)
    other_h,                \* swap: the handle passed to it (other)
    this_old,               \* swap: the local this_old
    other_old,              \* swap: the local other_old
    swaps,                  \* swap calls each thread has completed
    stores,                 \* store calls each thread has completed
    this_expected,          \* swap: the local this_expected
    use_count,              \* shared_ptr use_count of each object
    freed,                  \* objects whose use_count reached zero: destroyed
    held,                   \* the copy each thread keeps of what it got from a handle
    stored,                 \* the pointees each handle has held so far
    loads,                  \* load calls each thread has completed
    m_thread                \* jthread::m_thread: the thread each jthread is joinable on

stopVars == <<m_state, origin, nstates, m_stop_requested, m_mut, m_callbacks,
              m_current_callback_id, m_callback_id, idx, calls, retval,
              started, finished, deregistered, snap>>

timedVars == <<expired, status, cvret, stop>>

cvVars == <<cv_mut, m_cond, lck, m_queue, last_pred, wret, pushes, timedVars>>

ptrVars == <<m_ptr, init_ptr, this_h, other_h, this_old, other_old, swaps, stores,
             this_expected, use_count, freed, held, stored, loads>>

vars == <<pc, stopVars, cvVars, ptrVars, m_thread>>

\* ------------------------------------------------------- handles and state
\* lock_free_shared_ptr::load on the handle of thread t
load(t) == m_state[t]

\* stop_token::stop_possible / stop_source::stop_possible
stop_possible(t) == load(t) # null

\* detail::stop_state::stop_requested
state_stop_requested(s) == m_stop_requested[s]

\* stop_token::stop_requested / stop_source::stop_requested
stop_requested(t) == load(t) # null /\ state_stop_requested(load(t))

\* operator==(const stop_token&, const stop_token&)
token_equal(a, b) == load(a) = load(b)

\* a register_callback that puts the new callback at the front of the list
register_callback_front(list, id, fn) == <<[id |-> id, fn |-> fn]>> \o list

\* detail::stop_state::register_callback: the list with (id, fn) appended
register_callback(list, id, fn) == Append(list, [id |-> id, fn |-> fn])

\* a remove_if whose predicate is inverted: every other callback is removed
deregister_others(list, id) == SelectSeq(list, LAMBDA c : c.id = id)

\* detail::stop_state::deregister_callback: remove_if(id() == id)
deregister_callback(list, id) == SelectSeq(list, LAMBDA c : c.id # id)

\* an execute_callbacks that forgets to clear the list
clear_forgotten(list) == list

\* m_callbacks.clear() at the end of execute_callbacks
clear(list) == << >>

\* the callbacks of state s that are registered and were not deregistered
Registered(s) ==
    {o \in Threads : m_state[o] = s /\ m_callback_id[o] # nullopt /\ ~deregistered[o]}

\* where a thread continues after its stop_callback is constructed / destroyed
AfterCtor(t) ==
    IF t \in Waiters THEN "w_pred" ELSE IF t \in TimedWaiters THEN "tw_pred" ELSE "alive"
AfterDtor(t) ==
    IF t \in Waiters THEN "w_ret" ELSE IF t \in TimedWaiters THEN "tw_ret" ELSE "destroyed"

\* The action of the callback of thread fn is entered by the invoking thread.
InvokeBegin(fn) == started' = [started EXCEPT ![fn] = @ + 1]

\* a notify_all that signals without taking the internal mutex
InvokeEndNoLock(fn) ==
    /\ finished' = [finished EXCEPT ![fn] = @ + 1]
    /\ IF fn \in Waiters \cup TimedWaiters
          THEN /\ m_cond' = {}
               /\ UNCHANGED <<cv_mut, lck, m_queue, last_pred, wret, pushes,
                              timedVars>>
          ELSE UNCHANGED cvVars

\* The action of the callback of thread fn runs to its end.  The callback of a
\* waiter is [this]{ notify_all(); }: lock_guard on the internal mutex, wake
\* every blocked thread, release.  Any other callback only completes.
InvokeEnd(fn) ==
    /\ finished' = [finished EXCEPT ![fn] = @ + 1]
    /\ IF fn \in Waiters \cup TimedWaiters
          THEN /\ cv_mut = NoThread
               /\ m_cond' = {}
               /\ UNCHANGED <<cv_mut, lck, m_queue, last_pred, wret, pushes,
                              timedVars>>
          ELSE UNCHANGED cvVars

\* ------------------------------------------------- construction of handles
\* stop_source(): a handle on a freshly allocated stop state
ConstructNew(t) ==
    /\ pc[t] = "init"
    /\ nstates < MaxStates
    /\ nstates' = nstates + 1
    /\ m_state' = [m_state EXCEPT ![t] = nstates + 1]
    /\ origin' = [origin EXCEPT ![t] = t]
    /\ pc' = [pc EXCEPT ![t] = "idle"]
    /\ UNCHANGED <<m_stop_requested, m_mut, m_callbacks, m_current_callback_id,
                   m_callback_id, idx, calls, retval, started, finished,
                   deregistered, snap, cvVars>>
    /\ UNCHANGED <<ptrVars, m_thread>>

\* stop_source(nostopstate) and jthread(): a handle with no stop state
ConstructNoState(t) ==
    /\ pc[t] = "init"
    /\ m_state' = [m_state EXCEPT ![t] = null]
    /\ origin' = [origin EXCEPT ![t] = NoThread]
    /\ pc' = [pc EXCEPT ![t] = "idle"]
    /\ UNCHANGED <<nstates, m_stop_requested, m_mut, m_callbacks,
                   m_current_callback_id, m_callback_id, idx, calls, retval,
                   started, finished, deregistered, snap, cvVars>>
    /\ UNCHANGED <<ptrVars, m_thread>>

\* a copy that allocates a stop state of its own while one is available,
\* instead of sharing the state of u
ConstructCopyDeep(t, u) ==
    /\ pc[t] = "init"
    /\ pc[u] # "init"
    /\ IF load(u) # null /\ nstates < MaxStates
          THEN /\ nstates' = nstates + 1
               /\ m_state' = [m_state EXCEPT ![t] = nstates + 1]
          ELSE /\ m_state' = [m_state EXCEPT ![t] = load(u)]
               /\ UNCHANGED nstates
    /\ origin' = [origin EXCEPT ![t] = origin[u]]
    /\ pc' = [pc EXCEPT ![t] = "idle"]
    /\ UNCHANGED <<m_stop_requested, m_mut, m_callbacks,
                   m_current_callback_id, m_callback_id, idx, calls, retval,
                   started, finished, deregistered, snap, cvVars>>
    /\ UNCHANGED <<ptrVars, m_thread>>

\* stop_source(const stop_source&) / get_token(): a copy of the handle of u,
\* made by lock_free_shared_ptr's copy constructor (one atomic load)
ConstructCopy(t, u) ==
    /\ pc[t] = "init"
    /\ pc[u] # "init"
    /\ m_state' = [m_state EXCEPT ![t] = load(u)]
    /\ origin' = [origin EXCEPT ![t] = origin[u]]
    /\ pc' = [pc EXCEPT ![t] = "idle"]
    /\ UNCHANGED <<nstates, m_stop_requested, m_mut, m_callbacks,
                   m_current_callback_id, m_callback_id, idx, calls, retval,
                   started, finished, deregistered, snap, cvVars>>
    /\ UNCHANGED <<ptrVars, m_thread>>

\* ------------------------------------------------------------ request_stop
\* a request_stop that returns at once when the flag is already set, without
\* taking the list lock (snap records what it leaves behind)
RequestStopStoreOnce(t) ==
    /\ pc[t] \in {"idle", "rs_ret"}
    /\ calls[t] < MaxRequests
    /\ IF load(t) = null \/ state_stop_requested(load(t))
          THEN /\ pc' = [pc EXCEPT ![t] = "rs_ret"]
               /\ retval' = [retval EXCEPT ![t] = load(t) # null]
               /\ calls' = [calls EXCEPT ![t] = @ + 1]
               /\ snap' = [snap EXCEPT ![t] = Registered(load(t))]
               /\ UNCHANGED m_stop_requested
          ELSE /\ m_stop_requested' = [m_stop_requested EXCEPT ![load(t)] = TRUE]
               /\ pc' = [pc EXCEPT ![t] = "rs_lock"]
               /\ UNCHANGED <<retval, calls, snap>>
    /\ UNCHANGED <<m_state, origin, nstates, m_mut, m_callbacks, m_current_callback_id,
                   m_callback_id, idx, started, finished, deregistered, cvVars>>
    /\ UNCHANGED <<ptrVars, m_thread>>

\* a request_stop that reports success on a source with no state
RequestStopStoreNoCheck(t) ==
    /\ pc[t] \in {"idle", "rs_ret"}
    /\ calls[t] < MaxRequests
    /\ IF load(t) = null
          THEN /\ pc' = [pc EXCEPT ![t] = "rs_ret"]
               /\ retval' = [retval EXCEPT ![t] = TRUE]
               /\ calls' = [calls EXCEPT ![t] = @ + 1]
               /\ UNCHANGED m_stop_requested
          ELSE /\ m_stop_requested' = [m_stop_requested EXCEPT ![load(t)] = TRUE]
               /\ pc' = [pc EXCEPT ![t] = "rs_lock"]
               /\ UNCHANGED <<retval, calls>>
    /\ UNCHANGED <<m_state, origin, nstates, m_mut, m_callbacks, m_current_callback_id,
                   m_callback_id, idx, started, finished, deregistered, snap,
                   cvVars>>
    /\ UNCHANGED <<ptrVars, m_thread>>

\* stop_source::request_stop up to the store of the flag: a source with no
\* state returns false; otherwise stop_state::request_stop sets the flag.
RequestStopStore(t) ==
    /\ pc[t] \in {"idle", "rs_ret"}
    /\ calls[t] < MaxRequests
    /\ IF load(t) = null
          THEN /\ pc' = [pc EXCEPT ![t] = "rs_ret"]
               /\ retval' = [retval EXCEPT ![t] = FALSE]
               /\ calls' = [calls EXCEPT ![t] = @ + 1]
               /\ UNCHANGED m_stop_requested
          ELSE /\ m_stop_requested' = [m_stop_requested EXCEPT ![load(t)] = TRUE]
               /\ pc' = [pc EXCEPT ![t] = "rs_lock"]
               /\ UNCHANGED <<retval, calls>>
    /\ UNCHANGED <<m_state, origin, nstates, m_mut, m_callbacks, m_current_callback_id,
                   m_callback_id, idx, started, finished, deregistered, snap,
                   cvVars>>
    /\ UNCHANGED <<ptrVars, m_thread>>

\* auto lck{ std::lock_guard{m_mut} } in stop_state::request_stop
RequestStopLock(t) ==
    /\ pc[t] = "rs_lock"
    /\ m_mut[load(t)] = NoThread
    /\ m_mut' = [m_mut EXCEPT ![load(t)] = t]
    /\ idx' = [idx EXCEPT ![t] = 1]
    /\ snap' = [snap EXCEPT ![t] = Registered(load(t))]
    /\ pc' = [pc EXCEPT ![t] = "rs_exec"]
    /\ UNCHANGED <<m_state, origin, nstates, m_stop_requested, m_callbacks,
                   m_current_callback_id, m_callback_id, calls, retval, started,
                   finished, deregistered, cvVars>>
    /\ UNCHANGED <<ptrVars, m_thread>>

\* execute_callbacks: the range-for enters the next callback of the list
ExecuteCallbacksInvoke(t) ==
    /\ pc[t] = "rs_exec"
    /\ idx[t] <= Len(m_callbacks[load(t)])
    /\ InvokeBegin(m_callbacks[load(t)][idx[t]].fn)
    /\ pc' = [pc EXCEPT ![t] = "rs_cb"]
    /\ UNCHANGED <<m_state, origin, nstates, m_stop_requested, m_mut, m_callbacks,
                   m_current_callback_id, m_callback_id, idx, calls, retval,
                   finished, deregistered, snap, cvVars>>
    /\ UNCHANGED <<ptrVars, m_thread>>

\* execute_callbacks: the callback returns and the range-for advances
ExecuteCallbacksNext(t) ==
    /\ pc[t] = "rs_cb"
    /\ InvokeEnd(m_callbacks[load(t)][idx[t]].fn)
    /\ idx' = [idx EXCEPT ![t] = @ + 1]
    /\ pc' = [pc EXCEPT ![t] = "rs_exec"]
    /\ UNCHANGED <<m_state, origin, nstates, m_stop_requested, m_mut, m_callbacks,
                   m_current_callback_id, m_callback_id, calls, retval, started,
                   deregistered, snap>>
    /\ UNCHANGED <<timedVars, ptrVars, m_thread>>

\* execute_callbacks: after the last callback the list is cleared; the
\* lock_guard is released and stop_source::request_stop returns true
ExecuteCallbacksClear(t) ==
    /\ pc[t] = "rs_exec"
    /\ idx[t] > Len(m_callbacks[load(t)])
    /\ m_callbacks' = [m_callbacks EXCEPT ![load(t)] = clear(@)]
    /\ m_mut' = [m_mut EXCEPT ![load(t)] = NoThread]
    /\ retval' = [retval EXCEPT ![t] = TRUE]
    /\ calls' = [calls EXCEPT ![t] = @ + 1]
    /\ pc' = [pc EXCEPT ![t] = "rs_ret"]
    /\ UNCHANGED <<m_state, origin, nstates, m_stop_requested, m_current_callback_id,
                   m_callback_id, idx, started, finished, deregistered, snap,
                   cvVars>>
    /\ UNCHANGED <<ptrVars, m_thread>>

RequestStop(t) ==
    \/ RequestStopStore(t)
    \/ RequestStopLock(t)
    \/ ExecuteCallbacksInvoke(t)
    \/ ExecuteCallbacksNext(t)
    \/ ExecuteCallbacksClear(t)

\* ----------------------------------------------------------- stop_callback
\* register_or_invoke up to the unlocked check: a token with no state and a
\* state whose stop was requested enter the action inline; otherwise the
\* thread goes on to lock the list.
CtorCheck1(t) ==
    /\ pc[t] = "ctor"
    /\ IF ~stop_possible(t) \/ state_stop_requested(load(t))
          THEN /\ InvokeBegin(t)
               /\ pc' = [pc EXCEPT ![t] = "ctor_run"]
          ELSE /\ pc' = [pc EXCEPT ![t] = "ctor_lock"]
               /\ UNCHANGED started
    /\ UNCHANGED <<m_state, origin, nstates, m_stop_requested, m_mut, m_callbacks,
                   m_current_callback_id, m_callback_id, idx, calls, retval,
                   finished, deregistered, snap, cvVars>>
    /\ UNCHANGED <<ptrVars, m_thread>>

\* the inline action returns; register_or_invoke returns std::nullopt
CtorInlineReturn(t) ==
    /\ pc[t] = "ctor_run"
    /\ InvokeEnd(t)
    /\ m_callback_id' = [m_callback_id EXCEPT ![t] = nullopt]
    /\ pc' = [pc EXCEPT ![t] = AfterCtor(t)]
    /\ UNCHANGED <<m_state, origin, nstates, m_stop_requested, m_mut, m_callbacks,
                   m_current_callback_id, idx, calls, retval, started,
                   deregistered, snap>>
    /\ UNCHANGED <<timedVars, ptrVars, m_thread>>

\* auto lck{ std::lock_guard{ptr->m_mut} } in register_or_invoke
CtorLock(t) ==
    /\ pc[t] = "ctor_lock"
    /\ m_mut[load(t)] = NoThread
    /\ m_mut' = [m_mut EXCEPT ![load(t)] = t]
    /\ pc' = [pc EXCEPT ![t] = "ctor_check2"]
    /\ UNCHANGED <<m_state, origin, nstates, m_stop_requested, m_callbacks,
                   m_current_callback_id, m_callback_id, idx, calls, retval,
                   started, finished, deregistered, snap, cvVars>>
    /\ UNCHANGED <<ptrVars, m_thread>>

\* a register_or_invoke without the locked re-check: it always registers
CtorCheck2NoRecheck(t) ==
    /\ pc[t] = "ctor_check2"
    /\ pc' = [pc EXCEPT ![t] = "ctor_register"]
    /\ UNCHANGED <<stopVars, cvVars>>
    /\ UNCHANGED <<ptrVars, m_thread>>

\* the locked re-check of register_or_invoke
CtorCheck2(t) ==
    /\ pc[t] = "ctor_check2"
    /\ IF ~state_stop_requested(load(t))
          THEN /\ pc' = [pc EXCEPT ![t] = "ctor_register"]
               /\ UNCHANGED started
          ELSE /\ InvokeBegin(t)
               /\ pc' = [pc EXCEPT ![t] = "ctor_run_locked"]
    /\ UNCHANGED <<m_state, origin, nstates, m_stop_requested, m_mut, m_callbacks,
                   m_current_callback_id, m_callback_id, idx, calls, retval,
                   finished, deregistered, snap, cvVars>>
    /\ UNCHANGED <<ptrVars, m_thread>>

\* ptr->register_callback(...); return this_id; the lock_guard is released
CtorRegister(t) ==
    /\ pc[t] = "ctor_register"
    /\ LET s == load(t)
           this_id == m_current_callback_id[s]
       IN /\ m_current_callback_id' = [m_current_callback_id EXCEPT ![s] = @ + 1]
          /\ m_callbacks' = [m_callbacks EXCEPT ![s] = register_callback(@, this_id, t)]
          /\ m_callback_id' = [m_callback_id EXCEPT ![t] = some(this_id)]
          /\ m_mut' = [m_mut EXCEPT ![s] = NoThread]
    /\ pc' = [pc EXCEPT ![t] = AfterCtor(t)]
    /\ UNCHANGED <<m_state, origin, nstates, m_stop_requested, idx, calls, retval,
                   started, finished, deregistered, snap, cvVars>>
    /\ UNCHANGED <<ptrVars, m_thread>>

\* the action invoked under the list lock returns; the lock_guard is released
\* and register_or_invoke returns std::nullopt
CtorLockedReturn(t) ==
    /\ pc[t] = "ctor_run_locked"
    /\ InvokeEnd(t)
    /\ m_callback_id' = [m_callback_id EXCEPT ![t] = nullopt]
    /\ m_mut' = [m_mut EXCEPT ![load(t)] = NoThread]
    /\ pc' = [pc EXCEPT ![t] = AfterCtor(t)]
    /\ UNCHANGED <<m_state, origin, nstates, m_stop_requested, m_callbacks,
                   m_current_callback_id, idx, calls, retval, started,
                   deregistered, snap>>
    /\ UNCHANGED <<timedVars, ptrVars, m_thread>>

\* ~stop_callback up to the unlocked check
DtorCheck1(t) ==
    /\ pc[t] = "dtor"
    /\ IF m_callback_id[t] # nullopt /\ ~state_stop_requested(load(t))
          THEN pc' = [pc EXCEPT ![t] = "dtor_lock"]
          ELSE pc' = [pc EXCEPT ![t] = AfterDtor(t)]
    /\ UNCHANGED <<stopVars, cvVars>>
    /\ UNCHANGED <<ptrVars, m_thread>>

\* auto lck{ std::lock_guard{ptr->m_mut} } in ~stop_callback
DtorLock(t) ==
    /\ pc[t] = "dtor_lock"
    /\ m_mut[load(t)] = NoThread
    /\ m_mut' = [m_mut EXCEPT ![load(t)] = t]
    /\ pc' = [pc EXCEPT ![t] = "dtor_check2"]
    /\ UNCHANGED <<m_state, origin, nstates, m_stop_requested, m_callbacks,
                   m_current_callback_id, m_callback_id, idx, calls, retval,
                   started, finished, deregistered, snap, cvVars>>
    /\ UNCHANGED <<ptrVars, m_thread>>

\* the locked re-check of ~stop_callback; when the stop was requested the
\* lock_guard is released and the destructor returns
DtorCheck2(t) ==
    /\ pc[t] = "dtor_check2"
    /\ IF ~state_stop_requested(load(t))
          THEN /\ pc' = [pc EXCEPT ![t] = "dtor_dereg"]
               /\ UNCHANGED m_mut
          ELSE /\ m_mut' = [m_mut EXCEPT ![load(t)] = NoThread]
               /\ pc' = [pc EXCEPT ![t] = AfterDtor(t)]
    /\ UNCHANGED <<m_state, origin, nstates, m_stop_requested, m_callbacks,
                   m_current_callback_id, m_callback_id, idx, calls, retval,
                   started, finished, deregistered, snap, cvVars>>
    /\ UNCHANGED <<ptrVars, m_thread>>

\* ptr->deregister_callback(*m_callback_id); the lock_guard is released
DtorDeregister(t) ==
    /\ pc[t] = "dtor_dereg"
    /\ m_callbacks' = [m_callbacks EXCEPT
                         ![load(t)] = deregister_callback(@, m_callback_id[t][1])]
    /\ deregistered' = [deregistered EXCEPT ![t] = TRUE]
    /\ m_mut' = [m_mut EXCEPT ![load(t)] = NoThread]
    /\ pc' = [pc EXCEPT ![t] = AfterDtor(t)]
    /\ UNCHANGED <<m_state, origin, nstates, m_stop_requested, m_current_callback_id,
                   m_callback_id, idx, calls, retval, started, finished, snap,
                   cvVars>>
    /\ UNCHANGED <<ptrVars, m_thread>>

StopCallback(t) ==
    \/ CtorCheck1(t)
    \/ CtorInlineReturn(t)
    \/ CtorLock(t)
    \/ CtorCheck2(t)
    \/ CtorRegister(t)
    \/ CtorLockedReturn(t)
    \/ DtorCheck1(t)
    \/ DtorLock(t)
    \/ DtorCheck2(t)
    \/ DtorDeregister(t)

\* An owner declares a stop_callback on its token ...
OwnerConstruct(t) ==
    /\ pc[t] = "idle"
    /\ pc' = [pc EXCEPT ![t] = "ctor"]
    /\ UNCHANGED <<stopVars, cvVars>>
    /\ UNCHANGED <<ptrVars, m_thread>>

\* ... and lets it go out of scope.
OwnerDestroy(t) ==
    /\ pc[t] = "alive"
    /\ pc' = [pc EXCEPT ![t] = "dtor"]
    /\ UNCHANGED <<stopVars, cvVars>>
    /\ UNCHANGED <<ptrVars, m_thread>>

\* -------------------------------------------------- condition_variable_any
\* the predicate of queue::wait_pop: [this]{ return !m_queue.empty(); }
pred == m_queue > 0

\* condition_variable_any::notify_one under its lock_guard: one blocked thread
\* (if any) is woken
notify_one(waiting) ==
    IF waiting = {} THEN {{}} ELSE {waiting \ {w} : w \in waiting}

\* queue::wait_pop(token, item): std::unique_lock lck{ m_mut }
WaitPopLock(t) ==
    /\ pc[t] = "idle"
    /\ lck = NoThread
    /\ lck' = t
    /\ pc' = [pc EXCEPT ![t] = "w_entry"]
    /\ UNCHANGED <<stopVars, cv_mut, m_cond, m_queue, last_pred, wret, pushes>>
    /\ UNCHANGED <<timedVars, ptrVars, m_thread>>

\* a wait that answers false, not pred(), when the stop was already requested
WaitEntryFalse(t) ==
    /\ pc[t] = "w_entry"
    /\ IF stop_requested(t)
          THEN /\ wret' = [wret EXCEPT ![t] = FALSE]
               /\ pc' = [pc EXCEPT ![t] = "w_ret"]
          ELSE /\ pc' = [pc EXCEPT ![t] = "ctor"]
               /\ UNCHANGED wret
    /\ UNCHANGED <<stopVars, cv_mut, m_cond, lck, m_queue, last_pred, pushes>>
    /\ UNCHANGED <<timedVars, ptrVars, m_thread>>

\* wait(lock, token, pred): if (token.stop_requested()) return pred();
\* otherwise the stop_callback is declared
WaitEntry(t) ==
    /\ pc[t] = "w_entry"
    /\ IF stop_requested(t)
          THEN /\ last_pred' = [last_pred EXCEPT ![t] = pred]
               /\ wret' = [wret EXCEPT ![t] = pred]
               /\ pc' = [pc EXCEPT ![t] = "w_ret"]
          ELSE /\ pc' = [pc EXCEPT ![t] = "ctor"]
               /\ UNCHANGED <<last_pred, wret>>
    /\ UNCHANGED <<stopVars, cv_mut, m_cond, lck, m_queue, pushes>>
    /\ UNCHANGED <<timedVars, ptrVars, m_thread>>

\* while (!pred()): a true predicate ends the loop, wait returns true and the
\* stop_callback goes out of scope
WaitPred(t) ==
    /\ pc[t] = "w_pred"
    /\ last_pred' = [last_pred EXCEPT ![t] = pred]
    /\ IF pred
          THEN /\ wret' = [wret EXCEPT ![t] = TRUE]
               /\ pc' = [pc EXCEPT ![t] = "dtor"]
          ELSE /\ pc' = [pc EXCEPT ![t] = "w_lock"]
               /\ UNCHANGED wret
    /\ UNCHANGED <<stopVars, cv_mut, m_cond, lck, m_queue, pushes>>
    /\ UNCHANGED <<timedVars, ptrVars, m_thread>>

\* std::unique_lock outer_lock{ *mut }
WaitLock(t) ==
    /\ pc[t] = "w_lock"
    /\ cv_mut = NoThread
    /\ cv_mut' = t
    /\ pc' = [pc EXCEPT ![t] = "w_check"]
    /\ UNCHANGED <<stopVars, m_cond, lck, m_queue, last_pred, wret, pushes>>
    /\ UNCHANGED <<timedVars, ptrVars, m_thread>>

\* if (token.stop_requested()) return false; outer_lock is released and the
\* stop_callback goes out of scope
WaitCheck(t) ==
    /\ pc[t] = "w_check"
    /\ IF stop_requested(t)
          THEN /\ cv_mut' = NoThread
               /\ wret' = [wret EXCEPT ![t] = FALSE]
               /\ pc' = [pc EXCEPT ![t] = "dtor"]
          ELSE /\ pc' = [pc EXCEPT ![t] = "w_unlock"]
               /\ UNCHANGED <<cv_mut, wret>>
    /\ UNCHANGED <<stopVars, m_cond, lck, m_queue, last_pred, pushes>>
    /\ UNCHANGED <<timedVars, ptrVars, m_thread>>

\* scoped_unlock param_unlock{ lock }: the caller's lock is released
WaitUnlock(t) ==
    /\ pc[t] = "w_unlock"
    /\ lck' = NoThread
    /\ pc' = [pc EXCEPT ![t] = "w_wait"]
    /\ UNCHANGED <<stopVars, cv_mut, m_cond, m_queue, last_pred, wret, pushes>>
    /\ UNCHANGED <<timedVars, ptrVars, m_thread>>

\* m_cond.wait(inner_lock): the internal mutex is released and the thread
\* blocks, atomically
WaitBlock(t) ==
    /\ pc[t] = "w_wait"
    /\ cv_mut' = NoThread
    /\ m_cond' = m_cond \cup {t}
    /\ pc' = [pc EXCEPT ![t] = "w_blocked"]
    /\ UNCHANGED <<stopVars, lck, m_queue, last_pred, wret, pushes>>
    /\ UNCHANGED <<timedVars, ptrVars, m_thread>>

\* std::condition_variable may wake a blocked thread spuriously
SpuriousWake(t) ==
    /\ pc[t] = "w_blocked"
    /\ t \in m_cond
    /\ m_cond' = m_cond \ {t}
    /\ UNCHANGED <<pc, stopVars, cv_mut, lck, m_queue, last_pred, wret, pushes>>
    /\ UNCHANGED <<timedVars, ptrVars, m_thread>>

\* m_cond.wait returns: the woken thread re-acquires the internal mutex
WaitWake(t) ==
    /\ pc[t] = "w_blocked"
    /\ t \notin m_cond
    /\ cv_mut = NoThread
    /\ cv_mut' = t
    /\ pc' = [pc EXCEPT ![t] = "w_woke"]
    /\ UNCHANGED <<stopVars, m_cond, lck, m_queue, last_pred, wret, pushes>>
    /\ UNCHANGED <<timedVars, ptrVars, m_thread>>

\* a wait whose inner_lock outlives the scoped_unlock: the internal mutex is
\* still held when the caller's lock is re-acquired
WaitReleaseKeep(t) ==
    /\ pc[t] = "w_woke"
    /\ pc' = [pc EXCEPT ![t] = "w_relock"]
    /\ UNCHANGED <<stopVars, cvVars>>
    /\ UNCHANGED <<ptrVars, m_thread>>

\* ~unique_lock of inner_lock: the internal mutex is released
WaitRelease(t) ==
    /\ pc[t] = "w_woke"
    /\ cv_mut' = NoThread
    /\ pc' = [pc EXCEPT ![t] = "w_relock"]
    /\ UNCHANGED <<stopVars, m_cond, lck, m_queue, last_pred, wret, pushes>>
    /\ UNCHANGED <<timedVars, ptrVars, m_thread>>

\* ~scoped_unlock: the caller's lock is re-acquired; back to while (!pred())
WaitRelock(t) ==
    /\ pc[t] = "w_relock"
    /\ lck = NoThread
    /\ lck' = t
    /\ pc' = [pc EXCEPT ![t] = "w_pred"]
    /\ UNCHANGED <<stopVars, cv_mut, m_cond, m_queue, last_pred, wret, pushes>>
    /\ UNCHANGED <<timedVars, ptrVars, m_thread>>

\* queue::wait_pop after the wait: if (token.stop_requested()) return;
\* otherwise the front item is popped; the unique_lock is released
WaitPopReturn(t) ==
    /\ pc[t] = "w_ret"
    /\ m_queue' = IF stop_requested(t) THEN m_queue ELSE m_queue - 1
    /\ lck' = NoThread
    /\ pc' = [pc EXCEPT ![t] = "w_done"]
    /\ UNCHANGED <<stopVars, cv_mut, m_cond, last_pred, wret, pushes>>
    /\ UNCHANGED <<timedVars, ptrVars, m_thread>>

\* the steps of a waiter that the scheduler must eventually take
WaitSteps(t) ==
    \/ WaitPopLock(t)
    \/ WaitEntry(t)
    \/ StopCallback(t)
    \/ WaitPred(t)
    \/ WaitLock(t)
    \/ WaitCheck(t)
    \/ WaitUnlock(t)
    \/ WaitBlock(t)
    \/ WaitWake(t)
    \/ WaitRelease(t)
    \/ WaitRelock(t)
    \/ WaitPopReturn(t)

\* queue::push: std::lock_guard lck{ m_mut }; m_queue.push(...)
PushItem(t) ==
    /\ pc[t] = "idle"
    /\ pushes[t] < MaxPushes
    /\ lck = NoThread
    /\ lck' = t
    /\ m_queue' = m_queue + 1
    /\ pc' = [pc EXCEPT ![t] = "p_notify"]
    /\ UNCHANGED <<stopVars, cv_mut, m_cond, last_pred, wret, pushes>>
    /\ UNCHANGED <<timedVars, ptrVars, m_thread>>

\* a notify_one that signals without taking the internal mutex
PushNotifyNoLock(t) ==
    /\ pc[t] = "p_notify"
    /\ m_cond' \in notify_one(m_cond)
    /\ lck' = NoThread
    /\ pushes' = [pushes EXCEPT ![t] = @ + 1]
    /\ pc' = [pc EXCEPT ![t] = "idle"]
    /\ UNCHANGED <<stopVars, cv_mut, m_queue, last_pred, wret>>
    /\ UNCHANGED <<timedVars, ptrVars, m_thread>>

\* queue::push: m_cond.notify_one(); the lock_guard is released
PushNotify(t) ==
    /\ pc[t] = "p_notify"
    /\ cv_mut = NoThread
    /\ m_cond' \in notify_one(m_cond)
    /\ lck' = NoThread
    /\ pushes' = [pushes EXCEPT ![t] = @ + 1]
    /\ pc' = [pc EXCEPT ![t] = "idle"]
    /\ UNCHANGED <<stopVars, cv_mut, m_queue, last_pred, wret>>
    /\ UNCHANGED <<timedVars, ptrVars, m_thread>>

\* a notifier that has made the predicate true under the caller's lock calls
\* condition_variable_any::notify_all under its lock_guard: every blocked
\* thread is woken; the caller's lock is released
PushNotifyAll(t) ==
    /\ pc[t] = "p_notify"
    /\ cv_mut = NoThread
    /\ m_cond' = {}
    /\ lck' = NoThread
    /\ pushes' = [pushes EXCEPT ![t] = @ + 1]
    /\ pc' = [pc EXCEPT ![t] = "idle"]
    /\ UNCHANGED <<stopVars, cv_mut, m_queue, last_pred, wret>>
    /\ UNCHANGED <<timedVars, ptrVars, m_thread>>

\* queue::wait_pop(item): std::unique_lock lck{ m_mut }
PlainPopLock(t) ==
    /\ pc[t] = "idle"
    /\ lck = NoThread
    /\ lck' = t
    /\ pc' = [pc EXCEPT ![t] = "pw_pred"]
    /\ UNCHANGED <<stopVars, cv_mut, m_cond, m_queue, last_pred, wret, pushes>>
    /\ UNCHANGED <<timedVars, ptrVars, m_thread>>

\* wait(lock, pred): while (!pred()) wait(lock); a true predicate returns
PlainPred(t) ==
    /\ pc[t] = "pw_pred"
    /\ last_pred' = [last_pred EXCEPT ![t] = pred]
    /\ pc' = [pc EXCEPT ![t] = IF pred THEN "pw_ret" ELSE "pw_lock"]
    /\ UNCHANGED <<stopVars, cv_mut, m_cond, lck, m_queue, wret, pushes>>
    /\ UNCHANGED <<timedVars, ptrVars, m_thread>>

\* a wait(lock) that does not take the internal mutex
PlainNoLock(t) ==
    /\ pc[t] = "pw_lock"
    /\ pc' = [pc EXCEPT ![t] = "w_unlock"]
    /\ UNCHANGED <<stopVars, cvVars>>
    /\ UNCHANGED <<ptrVars, m_thread>>

\* wait(lock): std::unique_lock outer_lock{ *mut }
PlainLock(t) ==
    /\ pc[t] = "pw_lock"
    /\ cv_mut = NoThread
    /\ cv_mut' = t
    /\ pc' = [pc EXCEPT ![t] = "w_unlock"]
    /\ UNCHANGED <<stopVars, m_cond, lck, m_queue, last_pred, wret, pushes>>
    /\ UNCHANGED <<timedVars, ptrVars, m_thread>>

\* wait(lock) returns: ~scoped_unlock re-acquires the caller's lock; back to
\* while (!pred())
PlainRelock(t) ==
    /\ pc[t] = "w_relock"
    /\ lck = NoThread
    /\ lck' = t
    /\ pc' = [pc EXCEPT ![t] = "pw_pred"]
    /\ UNCHANGED <<stopVars, cv_mut, m_cond, m_queue, last_pred, wret, pushes>>
    /\ UNCHANGED <<timedVars, ptrVars, m_thread>>

\* queue::wait_pop after the wait: the front item is popped and the
\* unique_lock is released
PlainPopReturn(t) ==
    /\ pc[t] = "pw_ret"
    /\ m_queue' = m_queue - 1
    /\ lck' = NoThread
    /\ pc' = [pc EXCEPT ![t] = "pw_done"]
    /\ UNCHANGED <<stopVars, cv_mut, m_cond, last_pred, wret, pushes>>
    /\ UNCHANGED <<timedVars, ptrVars, m_thread>>

\* the steps of a thread in queue::wait_pop(item) that the scheduler must
\* eventually take
PlainSteps(t) ==
    \/ PlainPopLock(t)
    \/ PlainPred(t)
    \/ PlainLock(t)
    \/ WaitUnlock(t)
    \/ WaitBlock(t)
    \/ WaitWake(t)
    \/ WaitRelease(t)
    \/ PlainRelock(t)
    \/ PlainPopReturn(t)

\* queue::try_pop on a queue that is not empty, under its lock_guard
TryPop(t) ==
    /\ pc[t] = "idle"
    /\ lck = NoThread
    /\ m_queue > 0
    /\ m_queue' = m_queue - 1
    /\ UNCHANGED <<pc, stopVars, cv_mut, m_cond, lck, last_pred, wret, pushes>>
    /\ UNCHANGED <<timedVars, ptrVars, m_thread>>

\* ------------------------------------------------------------------- Init
\* Everything but the handles: no stop requested, nothing registered, no
\* lock held, an empty queue.
InitRest ==
    /\ m_stop_requested = [s \in States |-> FALSE]
    /\ m_mut = [s \in States |-> NoThread]
    /\ m_callbacks = [s \in States |-> << >>]
    /\ m_current_callback_id = [s \in States |-> 0]
    /\ m_callback_id = [t \in Threads |-> nullopt]
    /\ idx = [t \in Threads |-> 1]
    /\ calls = [t \in Threads |-> 0]
    /\ retval = [t \in Threads |-> FALSE]
    /\ started = [t \in Threads |-> 0]
    /\ finished = [t \in Threads |-> 0]
    /\ deregistered = [t \in Threads |-> FALSE]
    /\ snap = [t \in Threads |-> {}]
    /\ cv_mut = NoThread
    /\ m_cond = {}
    /\ lck = NoThread
    /\ m_queue = 0
    /\ last_pred = [t \in Threads |-> FALSE]
    /\ wret = [t \in Threads |-> FALSE]
    /\ pushes = [t \in Threads |-> 0]
    /\ expired = [t \in Threads |-> FALSE]
    /\ status = [t \in Threads |-> "no_timeout"]
    /\ cvret = [t \in Threads |-> "no_timeout"]
    /\ stop = [t \in Threads |-> FALSE]
    /\ init_ptr = m_ptr
    /\ this_h = [t \in Threads |-> "a"]
    /\ other_h = [t \in Threads |-> "a"]
    /\ this_old = [t \in Threads |-> null]
    /\ other_old = [t \in Threads |-> null]
    /\ swaps = [t \in Threads |-> 0]
    /\ stores = [t \in Threads |-> 0]
    /\ this_expected = [t \in Threads |-> null]
    /\ use_count = [p \in 1..NumPointees |->
                        Cardinality({h \in Handles : m_ptr[h] = p})]
    /\ freed = {}
    /\ held = [t \in Threads |-> [h \in Handles |-> null]]
    /\ stored = [h \in Handles |-> {m_ptr[h]}]
    /\ loads = [t \in Threads |-> 0]
    /\ m_thread = [j \in JHandles |-> IF j \in JThreads THEN "w1" ELSE NoThread]

\* One stop_source was constructed and every thread holds a copy of it or of
\* its token.
Init ==
    /\ pc = [t \in Threads |-> "idle"]
    /\ m_state = [t \in Threads |-> 1]
    /\ origin = [t \in Threads |-> "r1"]
    /\ nstates = 1
    /\ m_ptr = [h \in Handles |-> null]
    /\ InitRest

\* Stop requests from two sources race with the construction and destruction
\* of two stop_callbacks on the same state.
Next ==
    \/ \E t \in Requesters : RequestStop(t)
    \/ \E t \in Owners : OwnerConstruct(t) \/ StopCallback(t) \/ OwnerDestroy(t)

Spec == Init /\ [][Next]_vars

\* --------------------------------------------- properties of the callbacks
\* some request_stop() on state s has returned
StopReturned(s) == \E r \in Threads : m_state[r] = s /\ calls[r] >= 1

\* thread r takes a step of request_stop
RequestStopStep(r) ==
    \/ pc[r] \in {"idle", "rs_ret"} /\ (pc'[r] = "rs_lock" \/ calls'[r] # calls[r])
    \/ pc[r] \in {"rs_lock", "rs_exec", "rs_cb"} /\ pc'[r] # pc[r]

\* C1: single invocation.  The action of a stop_callback is never entered
\* twice, and once the stop_callback is constructed and a request_stop() on
\* its state has returned the action has run exactly once, to its end.
C1_SingleInvocation ==
    \A o \in Owners :
        /\ started[o] <= 1
        /\ (pc[o] = "alive" /\ StopReturned(load(o)))
               => (started[o] = 1 /\ finished[o] = 1)

\* a registered callback was run by one of two request_stop() calls that both
\* returned while the stop_callback is alive
C1_Witness ==
    /\ pc["o1"] = "alive"
    /\ m_callback_id["o1"] # nullopt
    /\ finished["o1"] = 1
    /\ calls["r1"] >= 1
    /\ calls["r2"] >= 1

\* C3: a callback that ~stop_callback deregistered is never invoked.
C3_NoRunAfterDeregister ==
    \A o \in Owners : deregistered[o] => started[o] = 0

\* a request_stop() returned after the callback of o1 was deregistered
C3_Witness ==
    /\ deregistered["o1"]
    /\ pc["o1"] = "destroyed"
    /\ calls["r1"] >= 1

\* C4: when ~stop_callback of a registered callback returned without
\* deregistering, the action has already been entered (it completed or is
\* executing inside request_stop()).
C4_SkipMeansInvoked ==
    \A o \in Owners :
        (pc[o] = "destroyed" /\ m_callback_id[o] # nullopt /\ ~deregistered[o])
            => started[o] >= 1

\* C5: when a request_stop() returns true, every callback that was registered
\* (and not deregistered) when the call acquired the list lock has run to its
\* end, whichever request_stop() ran it.
C5_DrainedOnReturn ==
    \A r \in Requesters :
        (pc[r] = "rs_ret" /\ retval[r]) => \A o \in snap[r] : finished[o] >= 1

\* r2 returned true having found both callbacks registered and an empty list:
\* r1 had the lock first and ran them
C5_Witness ==
    /\ pc["r2"] = "rs_ret"
    /\ calls["r2"] = 1
    /\ snap["r2"] = {"o1", "o2"}
    /\ idx["r2"] = 1
    /\ idx["r1"] = 3

\* C6: the flag never goes back to false, and once a request_stop() on a
\* state has returned, the steps of any further request_stop() on it enter no
\* callback and change neither a flag nor a callback list.
C6_MonotonicIdempotent ==
    [][ /\ \A s \in States : m_stop_requested[s] => m_stop_requested'[s]
        /\ \A r \in Requesters :
               (RequestStopStep(r) /\ load(r) # null /\ StopReturned(load(r)))
                   => /\ started' = started
                      /\ m_callbacks' = m_callbacks
                      /\ m_stop_requested' = m_stop_requested ]_vars

\* r1 called request_stop() twice after both callbacks had been run
C6_Witness ==
    /\ calls["r1"] >= 2
    /\ calls["r2"] >= 1
    /\ finished["o1"] = 1
    /\ finished["o2"] = 1

\* ------------------------------------------- wait(lock, token, pred)
\* A waiter in queue::wait_pop(token, item), two stop requests, and a thread
\* that pushes to and pops from the queue.
NextWait ==
    \/ \E t \in Waiters : WaitSteps(t) \/ SpuriousWake(t)
    \/ \E t \in Requesters : RequestStop(t)
    \/ \E t \in Notifiers : PushItem(t) \/ PushNotify(t) \/ TryPop(t)

\* request_stop after the call itself
RequestStopRest(t) ==
    \/ RequestStopLock(t)
    \/ ExecuteCallbacksInvoke(t)
    \/ ExecuteCallbacksNext(t)
    \/ ExecuteCallbacksClear(t)

\* Every thread that can take the next step of a call it is in eventually
\* takes it.  Nothing forces a call of request_stop or of push, a try_pop, or
\* a spurious wakeup.
SpecWait ==
    /\ Init
    /\ [][NextWait]_vars
    /\ \A t \in Waiters : WF_vars(WaitSteps(t))
    /\ \A t \in Requesters : WF_vars(RequestStopRest(t))
    /\ \A t \in Notifiers : WF_vars(PushNotify(t))

\* C2: no missed wakeup.  Once a waiter has called wait(lock, token, pred) and
\* request_stop() has been called on the token's state, the waiter eventually
\* returns from the wait (whatever the predicate does; in particular when it
\* stays false).
C2_NoMissedWakeup ==
    \A w \in Waiters :
        (pc[w] # "idle" /\ stop_requested(w)) ~> (pc[w] \in {"w_ret", "w_done"})

\* nothing was ever pushed; the waiter registered its callback, blocked, and
\* is awake again after request_stop() ran the callback's notify_all
C2_Witness ==
    /\ pc["w1"] = "w_relock"
    /\ stop_requested("w1")
    /\ pushes["n1"] = 0
    /\ finished["w1"] = 1
    /\ m_callback_id["w1"] # nullopt

\* C9: a wait that returned true last evaluated pred() to true; a wait that
\* returned false has a token on which the stop is requested; and a wait
\* entered with the stop already requested returns pred() in its next step,
\* with no stop_callback declared and without blocking.
C9_WaitResult ==
    /\ [](\A w \in Waiters :
            pc[w] = "w_ret" => /\ wret[w] => last_pred[w]
                               /\ ~wret[w] => stop_requested(w))
    /\ [][\A w \in Waiters :
            (pc[w] = "w_entry" /\ stop_requested(w) /\ pc'[w] # pc[w])
                => /\ pc'[w] = "w_ret"
                   /\ wret'[w] = pred
                   /\ started'[w] = 0
                   /\ m_callback_id'[w] = nullopt
                   /\ m_callbacks' = m_callbacks
                   /\ m_cond' = m_cond]_vars

\* the stop was requested before the wait was entered and the queue held an
\* item: the wait returned true
C9_Witness ==
    /\ pc["w1"] = "w_ret"
    /\ wret["w1"]
    /\ stop_requested("w1")
    /\ started["w1"] = 0

\* ------------------------------------------------ sources, tokens, copies
\* the threads that construct their own handle
TokThreads == Requesters \cup {"o1"}

\* No handle exists yet.
InitTok ==
    /\ pc = [t \in Threads |-> IF t \in TokThreads THEN "init" ELSE "idle"]
    /\ m_state = [t \in Threads |-> null]
    /\ origin = [t \in Threads |-> NoThread]
    /\ nstates = 0
    /\ m_ptr = [h \in Handles |-> null]
    /\ InitRest

\* Each thread constructs a source with a new state, a source with no state,
\* or a copy of another thread's handle, and then uses it.
NextTok ==
    \/ \E t \in TokThreads :
           \/ ConstructNew(t)
           \/ ConstructNoState(t)
           \/ \E u \in TokThreads : ConstructCopy(t, u)
    \/ \E t \in Requesters : RequestStop(t)
    \/ OwnerConstruct("o1") \/ StopCallback("o1") \/ OwnerDestroy("o1")

SpecTok == InitTok /\ [][NextTok]_vars

\* thread t has constructed its handle
Constructed(t) == t \in TokThreads /\ pc[t] # "init"

C8_SharedState ==
    /\ [](\A t \in TokThreads :
            (Constructed(t) /\ origin[t] # NoThread /\ calls[t] >= 1)
                => /\ retval[t]
                   /\ \A u \in TokThreads :
                          (Constructed(u) /\ origin[u] = origin[t])
                              => stop_requested(u))
    /\ [](\A a, b \in TokThreads :
            (Constructed(a) /\ Constructed(b))
                => (token_equal(a, b) <=> origin[a] = origin[b]))
    /\ [][\A t, u \in TokThreads :
            (RequestStopStep(t) /\ Constructed(u) /\ stop_possible(u)
                                /\ origin[u] # origin[t])
                => (m_stop_requested'[m_state[u]] = m_stop_requested[m_state[u]]
                    /\ m_callbacks'[m_state[u]] = m_callbacks[m_state[u]])]_vars

\* r2 holds a copy of r1's source and o1 a handle of another source: r1 called
\* request_stop() twice, r2 sees the stop and o1 does not
C8_Witness ==
    /\ origin["r2"] = "r1"
    /\ origin["o1"] = "o1"
    /\ calls["r1"] >= 2
    /\ pc["r2"] = "idle"
    /\ stop_requested("r2")
    /\ ~stop_requested("o1")

\* ---------------------------------------------------- lock_free_shared_ptr
\* null and the objects a handle may point to
Pointees == 0..NumPointees

\* std::atomic_compare_exchange_weak_explicit on a slot holding cur: the
\* possible outcomes [ok, val], val being what the slot holds afterwards.  The
\* weak form may fail although cur compares equal to expected.
compare_exchange_weak(cur, expected, desired) ==
    IF cur = expected
       THEN {[ok |-> TRUE, val |-> desired], [ok |-> FALSE, val |-> cur]}
       ELSE {[ok |-> FALSE, val |-> cur]}

\* the objects a handle may point to
Objects == 1..NumPointees

\* the use counts cnt after one more shared_ptr refers to p / one less does
acquire(cnt, p) == IF p = null THEN cnt ELSE [cnt EXCEPT ![p] = @ + 1]
release(cnt, p) == IF p = null THEN cnt ELSE [cnt EXCEPT ![p] = @ - 1]

\* a load that copies the pointer without taking a reference
atomic_load_raw(cnt, p) == cnt

\* std::atomic_load on a slot holding p: the copy returned is one more
\* reference to p
atomic_load(cnt, p) == acquire(cnt, p)

\* The use counts become cnt; an object whose count falls to zero is destroyed.
Counts(cnt) ==
    /\ use_count' = cnt
    /\ freed' = freed \cup {p \in Objects : cnt[p] <= 0 /\ use_count[p] > 0}

\* an object no shared_ptr was made for yet (std::make_shared may return it)
Fresh(p) == use_count[p] = 0 /\ p \notin freed

\* what a thread can pass as desired: null, a new object, a copy of what it holds
Desired(t) ==
    {null} \cup {p \in Objects : Fresh(p)} \cup {held[t][h] : h \in Handles}

\* a.swap(b) is called: if (&other == this) return;
SwapCall(t, x, y) ==
    /\ pc[t] = "idle"
    /\ swaps[t] < MaxSwaps
    /\ this_h' = [this_h EXCEPT ![t] = x]
    /\ other_h' = [other_h EXCEPT ![t] = y]
    /\ IF x = y
          THEN /\ swaps' = [swaps EXCEPT ![t] = @ + 1]
               /\ UNCHANGED pc
          ELSE /\ pc' = [pc EXCEPT ![t] = "sw_load_this"]
               /\ UNCHANGED swaps
    /\ UNCHANGED <<stopVars, cvVars, m_thread, m_ptr, init_ptr, this_old, other_old, stores,
                   this_expected, use_count, freed, held, stored, loads>>

\* auto this_old = std::atomic_load_explicit(&m_ptr, ...)
SwapLoadThis(t) ==
    /\ pc[t] = "sw_load_this"
    /\ this_old' = [this_old EXCEPT ![t] = m_ptr[this_h[t]]]
    /\ Counts(atomic_load(use_count, m_ptr[this_h[t]]))
    /\ pc' = [pc EXCEPT ![t] = "sw_load_other"]
    /\ UNCHANGED <<stopVars, cvVars, m_thread, m_ptr, init_ptr, this_h, other_h, other_old,
                   swaps, stores, this_expected, held, stored, loads>>

\* auto other_old = std::atomic_load_explicit(&other.m_ptr, ...); the copies
\* this_expected = this_old and other_expected = other_old
SwapLoadOther(t) ==
    /\ pc[t] = "sw_load_other"
    /\ other_old' = [other_old EXCEPT ![t] = m_ptr[other_h[t]]]
    /\ this_expected' = [this_expected EXCEPT ![t] = this_old[t]]
    /\ Counts(acquire(acquire(atomic_load(use_count, m_ptr[other_h[t]]),
                              m_ptr[other_h[t]]), this_old[t]))
    /\ pc' = [pc EXCEPT ![t] = "sw_cas1"]
    /\ UNCHANGED <<stopVars, cvVars, m_thread, m_ptr, init_ptr, this_h, other_h, this_old,
                   swaps, stores, held, stored, loads>>

\* compare_exchange_weak(&other.m_ptr, &other_expected, this_old).  Success:
\* the slot refers to this_old and no longer to other_old.  Failure: continue,
\* the four locals are destroyed.
SwapCas1(t) ==
    /\ pc[t] = "sw_cas1"
    /\ \E r \in compare_exchange_weak(m_ptr[other_h[t]], other_old[t], this_old[t]) :
           /\ m_ptr' = [m_ptr EXCEPT ![other_h[t]] = r.val]
           /\ stored' = [stored EXCEPT ![other_h[t]] = @ \cup {r.val}]
           /\ IF r.ok
                 THEN /\ pc' = [pc EXCEPT ![t] = "sw_cas2"]
                      /\ Counts(release(acquire(use_count, this_old[t]), other_old[t]))
                      /\ UNCHANGED <<this_old, other_old, this_expected>>
                 ELSE /\ pc' = [pc EXCEPT ![t] = "sw_load_this"]
                      /\ Counts(release(release(release(release(use_count,
                                    this_old[t]), this_old[t]),
                                    other_old[t]), other_old[t]))
                      /\ this_old' = [this_old EXCEPT ![t] = null]
                      /\ other_old' = [other_old EXCEPT ![t] = null]
                      /\ this_expected' = [this_expected EXCEPT ![t] = null]
    /\ UNCHANGED <<stopVars, cvVars, m_thread, init_ptr, this_h, other_h, swaps, stores,
                   held, loads>>

\* compare_exchange_weak(&m_ptr, &this_expected, other_old).  Success: the
\* slot refers to other_old and no longer to this_old; break, the four locals
\* are destroyed.  Failure: this_expected becomes what the slot holds.
SwapCas2(t) ==
    /\ pc[t] = "sw_cas2"
    /\ \E r \in compare_exchange_weak(m_ptr[this_h[t]], this_expected[t], other_old[t]) :
           /\ m_ptr' = [m_ptr EXCEPT ![this_h[t]] = r.val]
           /\ stored' = [stored EXCEPT ![this_h[t]] = @ \cup {r.val}]
           /\ IF r.ok
                 THEN /\ pc' = [pc EXCEPT ![t] = "idle"]
                      /\ swaps' = [swaps EXCEPT ![t] = @ + 1]
                      /\ Counts(release(release(release(release(use_count,
                                    this_old[t]), this_old[t]), this_old[t]),
                                    other_old[t]))
                      /\ this_old' = [this_old EXCEPT ![t] = null]
                      /\ other_old' = [other_old EXCEPT ![t] = null]
                      /\ this_expected' = [this_expected EXCEPT ![t] = null]
                 ELSE /\ pc' = [pc EXCEPT ![t] = "sw_rollback"]
                      /\ this_expected' = [this_expected EXCEPT ![t] = r.val]
                      /\ Counts(release(acquire(use_count, r.val), this_expected[t]))
                      /\ UNCHANGED <<swaps, this_old, other_old>>
    /\ UNCHANGED <<stopVars, cvVars, m_thread, init_ptr, this_h, other_h, stores, held, loads>>

\* compare_exchange_weak(&other.m_ptr, &this_old, other_old); continue, the
\* four locals are destroyed.  Success: the slot refers to other_old and no
\* longer to this_old.  Failure: the local this_old became what the slot holds.
SwapRollback(t) ==
    /\ pc[t] = "sw_rollback"
    /\ \E r \in compare_exchange_weak(m_ptr[other_h[t]], this_old[t], other_old[t]) :
           /\ m_ptr' = [m_ptr EXCEPT ![other_h[t]] = r.val]
           /\ stored' = [stored EXCEPT ![other_h[t]] = @ \cup {r.val}]
           /\ IF r.ok
                 THEN Counts(release(release(release(release(use_count,
                                 this_old[t]), this_old[t]), other_old[t]),
                                 this_expected[t]))
                 ELSE Counts(release(release(release(release(use_count,
                                 this_old[t]), other_old[t]), other_old[t]),
                                 this_expected[t]))
    /\ this_old' = [this_old EXCEPT ![t] = null]
    /\ other_old' = [other_old EXCEPT ![t] = null]
    /\ this_expected' = [this_expected EXCEPT ![t] = null]
    /\ pc' = [pc EXCEPT ![t] = "sw_load_this"]
    /\ UNCHANGED <<stopVars, cvVars, m_thread, init_ptr, this_h, other_h, swaps, stores,
                   held, loads>>

\* lock_free_shared_ptr::store(desired): the slot refers to desired and no
\* longer to what it held
Store(t, h, v) ==
    /\ stores[t] < MaxStores
    /\ v \in Desired(t)
    /\ m_ptr' = [m_ptr EXCEPT ![h] = v]
    /\ stored' = [stored EXCEPT ![h] = @ \cup {v}]
    /\ Counts(release(acquire(use_count, v), m_ptr[h]))
    /\ stores' = [stores EXCEPT ![t] = @ + 1]
    /\ UNCHANGED <<pc, stopVars, cvVars, m_thread, init_ptr, this_h, other_h, this_old,
                   other_old, swaps, this_expected, held, loads>>

\* lock_free_shared_ptr::exchange(desired): the slot refers to desired and the
\* caller receives the reference the slot held
Exchange(t, h, v) ==
    /\ stores[t] < MaxStores
    /\ v \in Desired(t)
    /\ m_ptr' = [m_ptr EXCEPT ![h] = v]
    /\ stored' = [stored EXCEPT ![h] = @ \cup {v}]
    /\ held' = [held EXCEPT ![t][h] = m_ptr[h]]
    /\ Counts(release(acquire(use_count, v), held[t][h]))
    /\ stores' = [stores EXCEPT ![t] = @ + 1]
    /\ UNCHANGED <<pc, stopVars, cvVars, m_thread, init_ptr, this_h, other_h, this_old,
                   other_old, swaps, this_expected, loads>>

\* lock_free_shared_ptr::compare_exchange_weak(expected, desired), expected
\* being the copy the caller holds.  Success: the slot refers to desired and no
\* longer to expected.  Failure: expected becomes a copy of what the slot
\* holds, and desired is destroyed.
CompareExchange(t, h, v) ==
    /\ stores[t] < MaxStores
    /\ v \in Desired(t)
    /\ \E r \in compare_exchange_weak(m_ptr[h], held[t][h], v) :
           /\ m_ptr' = [m_ptr EXCEPT ![h] = r.val]
           /\ stored' = [stored EXCEPT ![h] = @ \cup {r.val}]
           /\ IF r.ok
                 THEN /\ Counts(release(acquire(use_count, v), m_ptr[h]))
                      /\ UNCHANGED held
                 ELSE /\ Counts(release(acquire(use_count, m_ptr[h]), held[t][h]))
                      /\ held' = [held EXCEPT ![t][h] = m_ptr[h]]
    /\ stores' = [stores EXCEPT ![t] = @ + 1]
    /\ UNCHANGED <<pc, stopVars, cvVars, m_thread, init_ptr, this_h, other_h, this_old,
                   other_old, swaps, this_expected, loads>>

\* lock_free_shared_ptr::load(): the caller keeps the copy returned, in place
\* of the copy it kept from the same handle before
Load(t, h) ==
    /\ loads[t] < MaxLoads
    /\ held' = [held EXCEPT ![t][h] = m_ptr[h]]
    /\ Counts(release(atomic_load(use_count, m_ptr[h]), held[t][h]))
    /\ loads' = [loads EXCEPT ![t] = @ + 1]
    /\ UNCHANGED <<pc, stopVars, cvVars, m_thread, m_ptr, init_ptr, this_h, other_h,
                   this_old, other_old, swaps, stores, this_expected, stored>>

\* the copy a thread kept goes out of scope
Drop(t, h) ==
    /\ held[t][h] # null
    /\ held' = [held EXCEPT ![t][h] = null]
    /\ Counts(release(use_count, held[t][h]))
    /\ UNCHANGED <<pc, stopVars, cvVars, m_thread, m_ptr, init_ptr, this_h, other_h,
                   this_old, other_old, swaps, stores, this_expected, stored,
                   loads>>

\* Two handles with any pointees; two threads swap them and one stores.
InitPtr ==
    /\ pc = [t \in Threads |-> "idle"]
    /\ m_state = [t \in Threads |-> null]
    /\ origin = [t \in Threads |-> NoThread]
    /\ nstates = 0
    /\ m_ptr \in [Handles -> Pointees]
    /\ InitRest

NextPtr ==
    \/ \E t \in Swappers :
           \/ \E x, y \in Handles : SwapCall(t, x, y)
           \/ SwapLoadThis(t)
           \/ SwapLoadOther(t)
           \/ SwapCas1(t)
           \/ SwapCas2(t)
           \/ SwapRollback(t)
    \/ \E t \in Storers : \E h \in Handles, v \in Pointees : Store(t, h, v)

SpecPtr == InitPtr /\ [][NextPtr]_vars

\* no store was made
NoStore == \A t \in Storers : stores[t] = 0

\* the handles with their pointees exchanged n times
Swapped(n) == IF n % 2 = 0 THEN init_ptr
              ELSE [h \in Handles |-> init_ptr[IF h = "a" THEN "b" ELSE "a"]]

\* C10: swap is atomic.  With distinct pointees at the start and no store, at
\* no instant do both handles hold the same pointee, and whenever no swap is
\* in progress the handles hold what the completed swaps, done one after the
\* other, leave.
C10_SwapAtomic ==
    (NoStore /\ init_ptr["a"] # init_ptr["b"])
        => /\ m_ptr["a"] # m_ptr["b"]
           /\ (\A t \in Swappers : pc[t] = "idle" /\ (swaps[t] > 0 => this_h[t] # other_h[t]))
                  => m_ptr = Swapped(swaps["s1"] + swaps["s2"])

\* the second half of C10 alone: two swaps of a and b, both completed, with no
\* store, leave the handles as they were
C10_TwoSwaps ==
    (NoStore /\ pc["s1"] = "idle" /\ pc["s2"] = "idle"
        /\ swaps["s1"] = 1 /\ swaps["s2"] = 1
        /\ this_h["s1"] # other_h["s1"] /\ this_h["s2"] # other_h["s2"])
        => m_ptr = init_ptr

\* ----------------------------------------------- references and lifetimes
\* One thread swaps the handles, one stores, exchanges and compare-exchanges,
\* one loads; each may drop the copies it keeps.
NextRef ==
    \/ \E x, y \in Handles : SwapCall("s1", x, y)
    \/ SwapLoadThis("s1")
    \/ SwapLoadOther("s1")
    \/ SwapCas1("s1")
    \/ SwapCas2("s1")
    \/ SwapRollback("s1")
    \/ \E t \in Storers : \E h \in Handles :
           \/ \E v \in Pointees : Store(t, h, v)
           \/ \E v \in Pointees : Exchange(t, h, v)
           \/ \E v \in Pointees : CompareExchange(t, h, v)
           \/ Drop(t, h)
    \/ \E t \in Loaders : \E h \in Handles : Load(t, h) \/ Drop(t, h)

SpecRef == InitPtr /\ [][NextRef]_vars

\* the shared_ptr objects that refer to p: the slots, the copies the threads
\* keep, and the locals of a swap in progress (other_expected is a second
\* copy of other_old)
Refs(p) ==
    Cardinality({h \in Handles : m_ptr[h] = p})
    + Cardinality({c \in Threads \X Handles : held[c[1]][c[2]] = p})
    + Cardinality({t \in Threads : this_old[t] = p})
    + Cardinality({t \in Threads : this_expected[t] = p})
    + 2 * Cardinality({t \in Threads : other_old[t] = p})

\* C11: what a thread got from load() (or exchange, or a failed
\* compare_exchange) on a handle is null or a pointee that handle has held,
\* and while the thread keeps the copy the object is not destroyed: its use
\* count is the number of shared_ptr objects referring to it, at least one.
\* The locals of a swap in progress keep their objects alive the same way.
C11_LoadValid ==
    /\ \A t \in Threads, h \in Handles :
           /\ held[t][h] \in stored[h] \cup {null}
           /\ held[t][h] # null
                  => (held[t][h] \notin freed /\ use_count[held[t][h]] >= 1)
    /\ \A t \in Swappers :
           \A p \in {this_old[t], other_old[t], this_expected[t]} \ {null} :
               p \notin freed /\ use_count[p] >= 1
    /\ \A p \in Objects : use_count[p] = Refs(p)

\* l1 keeps the only reference to an object it loaded from a: since then the
\* handles were swapped and overwritten, and another object was destroyed
C11_Witness ==
    /\ held["l1"]["a"] # null
    /\ use_count[held["l1"]["a"]] = 1
    /\ m_ptr["a"] # held["l1"]["a"]
    /\ m_ptr["b"] # held["l1"]["a"]
    /\ swaps["s1"] >= 1
    /\ stores["st1"] >= 1
    /\ freed # {}

\* ------------------------------------------------------ termination of swap
\* the steps of a swap in progress
SwapSteps(t) ==
    \/ SwapLoadThis(t)
    \/ SwapLoadOther(t)
    \/ SwapCas1(t)
    \/ SwapCas2(t)
    \/ SwapRollback(t)

\* the first / the second compare-exchange of the swap loop succeeds
SwapCas1Ok(t) == SwapCas1(t) /\ pc'[t] = "sw_cas2"
SwapCas2Ok(t) == SwapCas2(t) /\ pc'[t] = "idle"

\* Fair scheduling: a thread inside swap keeps taking steps, and a weak
\* compare-exchange that is tried again and again on a slot holding the
\* expected value does not fail spuriously for ever.
SpecSwap ==
    /\ InitPtr
    /\ [][NextPtr]_vars
    /\ \A t \in Swappers :
           WF_vars(SwapSteps(t)) /\ SF_vars(SwapCas1Ok(t)) /\ SF_vars(SwapCas2Ok(t))

\* C12: every swap that was called returns; a self-swap returns in the step
\* of the call, with the slot untouched.
C12_SwapTerminates ==
    /\ \A t \in Swappers : (pc[t] # "idle") ~> (pc[t] = "idle")
    /\ [][\A t \in Swappers :
            (pc[t] = "idle" /\ swaps'[t] = swaps[t] + 1)
                => (pc'[t] = "idle" /\ this_h'[t] = other_h'[t] /\ m_ptr' = m_ptr)]_vars

\* ------------------------------------------------------- wait(lock, pred)
\* Two threads in queue::wait_pop(item) and a thread that pushes, notifying
\* one waiter or all.
NextPlain ==
    \/ \E t \in PlainWaiters : PlainSteps(t) \/ SpuriousWake(t)
    \/ \E t \in Notifiers : PushItem(t) \/ PushNotify(t) \/ PushNotifyAll(t)

\* the notification that follows a push
Notify(t) == PushNotify(t) \/ PushNotifyAll(t)

\* Fair scheduling of the steps of the calls in progress; nothing forces a
\* push or a spurious wakeup.
SpecPlain ==
    /\ Init
    /\ [][NextPlain]_vars
    /\ \A t \in PlainWaiters : WF_vars(PlainSteps(t))
    /\ \A t \in Notifiers : WF_vars(Notify(t))

\* the waiters that have not popped their item yet
NotDone == {p \in PlainWaiters : pc[p] # "pw_done"}

\* C14: no notification is lost by wait(lock, pred).  A waiter inside
\* wait_pop returns once the queue holds an item for every waiter that has
\* not returned (the pushes that made it so were each followed by notify_one
\* or notify_all); and a wait returns only when its last pred() was true, the
\* queue then holding an item.
C14_NoLostNotification ==
    /\ \A p \in PlainWaiters :
           (pc[p] \notin {"idle", "pw_done"} /\ m_queue >= Cardinality(NotDone))
               ~> (pc[p] = "pw_done")
    /\ [](\A p \in PlainWaiters : pc[p] = "pw_ret" => (last_pred[p] /\ pred))
    /\ [][\A p \in PlainWaiters :
            (pc[p] = "pw_pred" /\ pc'[p] = "pw_ret") => pred]_vars

\* p1 evaluated pred() false and blocked while the queue was empty; a push
\* followed and p1, awake, is about to re-acquire the caller's lock
C14_Witness ==
    /\ pc["p1"] = "w_relock"
    /\ ~last_pred["p1"]
    /\ pc["p2"] = "idle"
    /\ pushes["n1"] = 1
    /\ m_queue = 1

\* ------------------------------------------------ the locks of the waits
\* A thread in wait_pop(token, item), a thread in wait_pop(item), a thread
\* that requests the stop and a thread that pushes, all on one queue.
NextCv ==
    \/ WaitSteps("w1") \/ SpuriousWake("w1")
    \/ PlainSteps("p1") \/ SpuriousWake("p1")
    \/ RequestStop("r1")
    \/ \E t \in Notifiers : PushItem(t) \/ PushNotify(t) \/ PushNotifyAll(t)

SpecCv == Init /\ [][NextCv]_vars

\* the threads that call a wait of the condition variable
CvWaiters == Waiters \cup PlainWaiters

\* thread t is inside a wait / has returned from it to wait_pop
InWait(t) == pc[t] \notin {"idle", "w_ret", "pw_ret", "w_done", "pw_done"}
Returned(t) == pc[t] \in {"w_ret", "pw_ret"}

WantsCv(t) ==
    \/ pc[t] \in {"w_lock", "pw_lock", "p_notify"}
    \/ pc[t] = "w_blocked" /\ t \notin m_cond
    \/ pc[t] \in {"ctor_run", "ctor_run_locked"} /\ t \in Waiters
    \/ pc[t] = "rs_cb" /\ m_callbacks[load(t)][idx[t]].fn \in Waiters
WantsLck(t) == pc[t] = "w_relock"
WantsMut(t) == pc[t] \in {"rs_lock", "ctor_lock", "dtor_lock"}

\* the thread that holds the lock t is about to acquire (NoThread: the lock
\* is free, or t acquires no lock)
WaitsFor(t) ==
    IF t = NoThread THEN NoThread
    ELSE IF WantsCv(t) THEN cv_mut
    ELSE IF WantsLck(t) THEN lck
    ELSE IF WantsMut(t) THEN m_mut[load(t)]
    ELSE NoThread

\* the thread reached from t by following WaitsFor n times
RECURSIVE WaitsForN(_, _)
WaitsForN(t, n) == IF n = 0 THEN t ELSE WaitsFor(WaitsForN(t, n - 1))

\* C15: no deadlock.  No thread waits for a lock held by a thread that waits,
\* directly or through other threads, for a lock the first one holds; and the
\* locks are taken in one order: a thread that acquires the caller's lock
\* holds neither of the other two, and a thread that acquires the
\* callback-list mutex does not hold the internal mutex.
C15_NoDeadlock ==
    /\ [](\A t \in Threads :
            \A n \in 1..Cardinality(Threads) : WaitsForN(t, n) # t)
    /\ [][\A t \in Threads :
            /\ (lck # t /\ lck' = t)
                   => (cv_mut # t /\ \A s \in States : m_mut[s] # t)
            /\ \A s \in States :
                   (m_mut[s] # t /\ m_mut'[s] = t) => cv_mut # t]_vars

\* w1, holding the caller's lock, waits in ~stop_callback for the list mutex;
\* r1 holds it and is about to run the callback's notify_all, which needs the
\* internal mutex; p1 holds that and is about to block
C15_Witness ==
    /\ pc["w1"] = "dtor_lock"
    /\ lck = "w1"
    /\ m_mut[1] = "r1"
    /\ pc["r1"] = "rs_cb"
    /\ cv_mut = "p1"

\* ------------------------------------------------------------ timed waits
\* std::cv_status
cv_status == {"timeout", "no_timeout"}

\* steady_clock passes the end_time of the timed wait thread t is in
Tick(t) ==
    /\ pc[t] \notin {"idle", "tp_done", "tw_done"}
    /\ ~expired[t]
    /\ expired' = [expired EXCEPT ![t] = TRUE]
    /\ UNCHANGED <<pc, stopVars, cv_mut, m_cond, lck, m_queue, last_pred, wret,
                   pushes, status, cvret, stop, ptrVars, m_thread>>

\* an m_cond.wait_until that reports a timeout whenever it wakes
TimedWakeTimeout(t) ==
    /\ pc[t] = "w_blocked"
    /\ t \notin m_cond \/ expired[t]
    /\ cv_mut = NoThread
    /\ cv_mut' = t
    /\ m_cond' = m_cond \ {t}
    /\ status' = [status EXCEPT ![t] = "timeout"]
    /\ pc' = [pc EXCEPT ![t] = "w_woke"]
    /\ UNCHANGED <<stopVars, lck, m_queue, last_pred, wret, pushes, expired,
                   cvret, stop, ptrVars, m_thread>>

\* m_cond.wait_until(inner_lock, end_time) returns, the internal mutex
\* re-acquired: after a notification or a spurious wakeup, or because the
\* end_time has passed.  The status is cv_status::timeout if the end_time has
\* passed when the call returns and cv_status::no_timeout otherwise.
TimedWake(t) ==
    /\ pc[t] = "w_blocked"
    /\ t \notin m_cond \/ expired[t]
    /\ cv_mut = NoThread
    /\ cv_mut' = t
    /\ m_cond' = m_cond \ {t}
    /\ status' = [status EXCEPT ![t] = IF expired[t] THEN "timeout"
                                                      ELSE "no_timeout"]
    /\ pc' = [pc EXCEPT ![t] = "w_woke"]
    /\ UNCHANGED <<stopVars, lck, m_queue, last_pred, wret, pushes, expired,
                   cvret, stop, ptrVars, m_thread>>

\* a caller locks the queue's mutex and calls
\* wait_until(lock, end_time, pred) / wait_for(lock, wait_time, pred)
TpCall(t) ==
    /\ pc[t] = "idle"
    /\ lck = NoThread
    /\ lck' = t
    /\ pc' = [pc EXCEPT ![t] = "tp_pred"]
    /\ UNCHANGED <<stopVars, cv_mut, m_cond, m_queue, last_pred, wret, pushes,
                   timedVars, ptrVars, m_thread>>

\* while (!predicate()): with a true predicate the body is skipped and the
\* function flows off its end without a return statement: the caller reads
\* an indeterminate bool
TpPred(t) ==
    /\ pc[t] = "tp_pred"
    /\ last_pred' = [last_pred EXCEPT ![t] = pred]
    /\ IF pred
          THEN /\ \E b \in BOOLEAN : wret' = [wret EXCEPT ![t] = b]
               /\ pc' = [pc EXCEPT ![t] = "tp_ret"]
          ELSE /\ pc' = [pc EXCEPT ![t] = "tp_lock"]
               /\ UNCHANGED wret
    /\ UNCHANGED <<stopVars, cv_mut, m_cond, lck, m_queue, pushes, timedVars,
                   ptrVars, m_thread>>

\* wait_until(lock, end_time): std::unique_lock outer_lock{ *mut }
TpLock(t) ==
    /\ pc[t] = "tp_lock"
    /\ cv_mut = NoThread
    /\ cv_mut' = t
    /\ pc' = [pc EXCEPT ![t] = "w_unlock"]
    /\ UNCHANGED <<stopVars, m_cond, lck, m_queue, last_pred, wret, pushes,
                   timedVars, ptrVars, m_thread>>

\* wait_until(lock, end_time) ends: ~scoped_unlock re-acquires the caller's
\* lock and the function flows off its end without a return statement: the
\* caller reads an indeterminate std::cv_status
TpRelock(t) ==
    /\ pc[t] = "w_relock"
    /\ lck = NoThread
    /\ lck' = t
    /\ \E st \in cv_status : cvret' = [cvret EXCEPT ![t] = st]
    /\ pc' = [pc EXCEPT ![t] = "tp_after"]
    /\ UNCHANGED <<stopVars, cv_mut, m_cond, m_queue, last_pred, wret, pushes,
                   expired, status, stop, ptrVars, m_thread>>

\* if (wait_until(lock, end_time) == std::cv_status::timeout) return
\* predicate(); return true;
TpAfter(t) ==
    /\ pc[t] = "tp_after"
    /\ IF cvret[t] = "timeout"
          THEN /\ last_pred' = [last_pred EXCEPT ![t] = pred]
               /\ wret' = [wret EXCEPT ![t] = pred]
          ELSE /\ wret' = [wret EXCEPT ![t] = TRUE]
               /\ UNCHANGED last_pred
    /\ pc' = [pc EXCEPT ![t] = "tp_ret"]
    /\ UNCHANGED <<stopVars, cv_mut, m_cond, lck, m_queue, pushes, timedVars,
                   ptrVars, m_thread>>

\* the caller releases the queue's mutex
TpDone(t) ==
    /\ pc[t] = "tp_ret"
    /\ lck' = NoThread
    /\ pc' = [pc EXCEPT ![t] = "tp_done"]
    /\ UNCHANGED <<stopVars, cv_mut, m_cond, m_queue, last_pred, wret, pushes,
                   timedVars, ptrVars, m_thread>>

\* A thread in wait_until(lock, end_time, pred), the clock, and a thread
\* that pushes.
NextUntil ==
    \/ \E t \in TimedPlain :
           \/ TpCall(t) \/ TpPred(t) \/ TpLock(t) \/ WaitUnlock(t) \/ WaitBlock(t)
           \/ SpuriousWake(t) \/ TimedWake(t) \/ WaitRelease(t) \/ TpRelock(t)
           \/ TpAfter(t) \/ TpDone(t) \/ Tick(t)
    \/ \E t \in Notifiers : PushItem(t) \/ PushNotify(t)

SpecUntil == Init /\ [][NextUntil]_vars

\* C16: what wait_until(lock, end_time) returns to its caller is the status
\* of the underlying m_cond.wait_until.
C16_StatusReturned ==
    \A t \in TimedPlain : pc[t] = "tp_after" => cvret[t] = status[t]

\* C17: what wait_until(lock, end_time, pred) returns is the value of pred()
\* at the return (the caller's lock is held, so it is the value pred() has
\* after waking).
C17_TimedPredResult ==
    \A t \in TimedPlain : pc[t] = "tp_ret" => wret[t] = pred

\* ------------------------------------------- timed waits with a stop_token
\* a caller locks the queue's mutex and calls
\* wait_until(lock, token, end_time, pred) / wait_for(lock, token, wait_time, pred)
TwCall(t) ==
    /\ pc[t] = "idle"
    /\ lck = NoThread
    /\ lck' = t
    /\ pc' = [pc EXCEPT ![t] = "tw_entry"]
    /\ UNCHANGED <<stopVars, cv_mut, m_cond, m_queue, last_pred, wret, pushes,
                   timedVars, ptrVars, m_thread>>

\* if (token.stop_requested()) return predicate(); otherwise the
\* stop_callback is declared
TwEntry(t) ==
    /\ pc[t] = "tw_entry"
    /\ IF stop_requested(t)
          THEN /\ last_pred' = [last_pred EXCEPT ![t] = pred]
               /\ wret' = [wret EXCEPT ![t] = pred]
               /\ pc' = [pc EXCEPT ![t] = "tw_ret"]
          ELSE /\ pc' = [pc EXCEPT ![t] = "ctor"]
               /\ UNCHANGED <<last_pred, wret>>
    /\ UNCHANGED <<stopVars, cv_mut, m_cond, lck, m_queue, pushes, timedVars,
                   ptrVars, m_thread>>

\* while (!predicate()): a true predicate ends the loop, the function returns
\* true and the stop_callback goes out of scope
TwPred(t) ==
    /\ pc[t] = "tw_pred"
    /\ last_pred' = [last_pred EXCEPT ![t] = pred]
    /\ IF pred
          THEN /\ wret' = [wret EXCEPT ![t] = TRUE]
               /\ pc' = [pc EXCEPT ![t] = "dtor"]
          ELSE /\ pc' = [pc EXCEPT ![t] = "tw_lock"]
               /\ UNCHANGED wret
    /\ UNCHANGED <<stopVars, cv_mut, m_cond, lck, m_queue, pushes, timedVars,
                   ptrVars, m_thread>>

\* std::unique_lock outer_lock{ *mut }
TwLock(t) ==
    /\ pc[t] = "tw_lock"
    /\ cv_mut = NoThread
    /\ cv_mut' = t
    /\ pc' = [pc EXCEPT ![t] = "tw_check"]
    /\ UNCHANGED <<stopVars, m_cond, lck, m_queue, last_pred, wret, pushes,
                   timedVars, ptrVars, m_thread>>

\* if (token.stop_requested()) return false; outer_lock is released and the
\* stop_callback goes out of scope
TwCheck(t) ==
    /\ pc[t] = "tw_check"
    /\ IF stop_requested(t)
          THEN /\ cv_mut' = NoThread
               /\ wret' = [wret EXCEPT ![t] = FALSE]
               /\ pc' = [pc EXCEPT ![t] = "dtor"]
          ELSE /\ pc' = [pc EXCEPT ![t] = "w_unlock"]
               /\ UNCHANGED <<cv_mut, wret>>
    /\ UNCHANGED <<stopVars, m_cond, lck, m_queue, last_pred, pushes, timedVars,
                   ptrVars, m_thread>>

\* stop = (status == std::cv_status::timeout || token.stop_requested()), then
\* ~unique_lock of inner_lock releases the internal mutex
TwRelease(t) ==
    /\ pc[t] = "w_woke"
    /\ stop' = [stop EXCEPT ![t] = (status[t] = "timeout" \/ stop_requested(t))]
    /\ cv_mut' = NoThread
    /\ pc' = [pc EXCEPT ![t] = "w_relock"]
    /\ UNCHANGED <<stopVars, m_cond, lck, m_queue, last_pred, wret, pushes,
                   expired, status, cvret, ptrVars, m_thread>>

\* ~scoped_unlock re-acquires the caller's lock at the end of the block
TwRelock(t) ==
    /\ pc[t] = "w_relock"
    /\ lck = NoThread
    /\ lck' = t
    /\ pc' = [pc EXCEPT ![t] = "tw_stop"]
    /\ UNCHANGED <<stopVars, cv_mut, m_cond, m_queue, last_pred, wret, pushes,
                   timedVars, ptrVars, m_thread>>

\* a wait that returns true when stop is set
TwStopTrue(t) ==
    /\ pc[t] = "tw_stop"
    /\ IF stop[t]
          THEN /\ wret' = [wret EXCEPT ![t] = TRUE]
               /\ pc' = [pc EXCEPT ![t] = "dtor"]
          ELSE /\ pc' = [pc EXCEPT ![t] = "tw_pred"]
               /\ UNCHANGED wret
    /\ UNCHANGED <<stopVars, cv_mut, m_cond, lck, m_queue, last_pred, pushes,
                   timedVars, ptrVars, m_thread>>

\* if (stop) return predicate(); the stop_callback goes out of scope;
\* otherwise back to while (!predicate())
TwStop(t) ==
    /\ pc[t] = "tw_stop"
    /\ IF stop[t]
          THEN /\ last_pred' = [last_pred EXCEPT ![t] = pred]
               /\ wret' = [wret EXCEPT ![t] = pred]
               /\ pc' = [pc EXCEPT ![t] = "dtor"]
          ELSE /\ pc' = [pc EXCEPT ![t] = "tw_pred"]
               /\ UNCHANGED <<last_pred, wret>>
    /\ UNCHANGED <<stopVars, cv_mut, m_cond, lck, m_queue, pushes, timedVars,
                   ptrVars, m_thread>>

\* the caller releases the queue's mutex
TwDone(t) ==
    /\ pc[t] = "tw_ret"
    /\ lck' = NoThread
    /\ pc' = [pc EXCEPT ![t] = "tw_done"]
    /\ UNCHANGED <<stopVars, cv_mut, m_cond, m_queue, last_pred, wret, pushes,
                   timedVars, ptrVars, m_thread>>

\* the steps of a thread in the timed wait that the scheduler must
\* eventually take
TwSteps(t) ==
    \/ TwCall(t)
    \/ TwEntry(t)
    \/ StopCallback(t)
    \/ TwPred(t)
    \/ TwLock(t)
    \/ TwCheck(t)
    \/ WaitUnlock(t)
    \/ WaitBlock(t)
    \/ TimedWake(t)
    \/ TwRelease(t)
    \/ TwRelock(t)
    \/ TwStop(t)
    \/ TwDone(t)

\* A thread in wait_until(lock, token, end_time, pred), the clock, a thread
\* that requests the stop and a thread that pushes and pops.
NextTimed ==
    \/ \E t \in TimedWaiters : TwSteps(t) \/ SpuriousWake(t) \/ Tick(t)
    \/ RequestStop("r1")
    \/ \E t \in Notifiers : PushItem(t) \/ PushNotify(t) \/ TryPop(t)

\* Fair scheduling of the steps of the calls in progress; nothing forces the
\* clock, a request_stop, a push, a try_pop or a spurious wakeup.
SpecTimed ==
    /\ Init
    /\ [][NextTimed]_vars
    /\ \A t \in TimedWaiters : WF_vars(TwSteps(t))
    /\ WF_vars(RequestStopRest("r1"))
    /\ \A t \in Notifiers : WF_vars(PushNotify(t))

\* C18 as stated: a timed wait with a token that returned false has a token
\* on which the stop is requested.
C18_FalseOnlyOnStop ==
    \A t \in TimedWaiters : (pc[t] = "tw_ret" /\ ~wret[t]) => stop_requested(t)

\* C18: a timed wait with a token returns the truth value pred() has at the
\* return, and returns false only when the stop is requested or the end_time
\* has passed.
C18_TimedTokenResult ==
    \A t \in TimedWaiters :
        pc[t] = "tw_ret" => /\ wret[t] = pred
                            /\ ~wret[t] => (stop_requested(t) \/ expired[t])

\* an item was pushed and popped again, the end_time passed and the wait
\* returned false although no stop was requested
C18_Witness ==
    /\ pc["tw1"] = "tw_ret"
    /\ ~wret["tw1"]
    /\ ~stop_requested("tw1")
    /\ pushes["n1"] >= 1
    /\ status["tw1"] = "timeout"

\* C19: with nothing pushed and no stop requested, a timed wait with a token
\* that has returned did so after its end_time passed and returned false (a
\* wakeup before the end_time leads back to the wait); and once the end_time
\* has passed a thread inside the wait returns.
C19_ReturnsAtDeadline ==
    /\ [](\A t \in TimedWaiters :
            (pc[t] \in {"tw_ret", "tw_done"} /\ m_queue = 0
                /\ (\A n \in Notifiers : pushes[n] = 0) /\ ~stop_requested(t))
               => (expired[t] /\ ~wret[t]))
    /\ \A t \in TimedWaiters :
           (pc[t] # "idle" /\ expired[t]) ~> (pc[t] \in {"tw_ret", "tw_done"})

\* nothing was pushed and no stop was requested: the end_time passed and the
\* wait returned false
C19_Witness ==
    /\ pc["tw1"] = "tw_ret"
    /\ ~wret["tw1"]
    /\ expired["tw1"]
    /\ m_callback_id["tw1"] # nullopt
    /\ calls["r1"] = 0 /\ pc["r1"] = "idle"
    /\ pushes["n1"] = 0 /\ pc["n1"] = "idle"

\* ----------------------------------------------------------------- jthread
\* jthread::joinable
joinable(j) == m_thread[j] # NoThread

\* a destructor that joins without requesting the stop
JtDtorNoStop(j) ==
    /\ pc[j] = "idle"
    /\ joinable(j)
    /\ pc' = [pc EXCEPT ![j] = "rs_ret"]
    /\ UNCHANGED <<stopVars, cvVars, ptrVars, m_thread>>

\* ~jthread: if (joinable()) m_stop.request_stop(), up to the store of the flag
JtDtorStop(j) ==
    /\ pc[j] = "idle"
    /\ joinable(j)
    /\ RequestStopStore(j)

\* ~jthread: m_thread.join() after request_stop returned; it blocks until the
\* thread's function has returned
JtDtorJoin(j) ==
    /\ pc[j] = "rs_ret"
    /\ joinable(j)
    /\ pc[m_thread[j]] = "jt_exit"
    /\ m_thread' = [m_thread EXCEPT ![j] = NoThread]
    /\ pc' = [pc EXCEPT ![j] = "jt_destroyed"]
    /\ UNCHANGED <<stopVars, cvVars, ptrVars>>

\* ~jthread of a jthread that is not joinable: the body of the if is skipped
JtDtorNotJoinable(j) ==
    /\ pc[j] \in {"idle", "rs_ret"}
    /\ ~joinable(j)
    /\ pc' = [pc EXCEPT ![j] = "jt_destroyed"]
    /\ UNCHANGED <<stopVars, cvVars, ptrVars, m_thread>>

\* jthread::join: m_thread.join() blocks until the thread's function has
\* returned
JtJoin(j) ==
    /\ pc[j] = "idle"
    /\ joinable(j)
    /\ pc[m_thread[j]] = "jt_exit"
    /\ m_thread' = [m_thread EXCEPT ![j] = NoThread]
    /\ UNCHANGED <<pc, stopVars, cvVars, ptrVars>>

\* a detach that resets m_stop and leaves m_thread joinable
JtDetachKeepThread(j) ==
    /\ pc[j] = "idle"
    /\ joinable(j)
    /\ m_state' = [m_state EXCEPT ![j] = null]
    /\ UNCHANGED <<pc, origin, nstates, m_stop_requested, m_mut, m_callbacks,
                   m_current_callback_id, m_callback_id, idx, calls, retval,
                   started, finished, deregistered, snap, cvVars, ptrVars, m_thread>>

\* jthread::detach: m_thread.detach(); m_stop = stop_source{ nostopstate }
JtDetach(j) ==
    /\ pc[j] = "idle"
    /\ joinable(j)
    /\ m_thread' = [m_thread EXCEPT ![j] = NoThread]
    /\ m_state' = [m_state EXCEPT ![j] = null]
    /\ UNCHANGED <<pc, origin, nstates, m_stop_requested, m_mut, m_callbacks,
                   m_current_callback_id, m_callback_id, idx, calls, retval,
                   started, finished, deregistered, snap, cvVars, ptrVars>>

\* the function the jthread runs with m_stop.get_token():
\* while (!token.stop_requested()) queue.wait_pop(token, item);
\* after a wait_pop the token is polled, and the function returns when the
\* stop is requested
JtLoop(w) ==
    /\ pc[w] = "w_done"
    /\ pc' = [pc EXCEPT ![w] = IF stop_requested(w) THEN "jt_exit" ELSE "idle"]
    /\ UNCHANGED <<stopVars, cvVars, ptrVars, m_thread>>

\* A jthread whose function waits on the queue with the jthread's token, the
\* thread that owns the jthread (it may join, detach and destroy it), a copy
\* of the stop_source held by another thread, and a thread that pushes.
NextJt ==
    \/ \E j \in JThreads : \/ JtDtorStop(j)
                            \/ RequestStopRest(j)
                            \/ JtDtorJoin(j)
                            \/ JtDtorNotJoinable(j)
                            \/ JtJoin(j)
                            \/ JtDetach(j)
    \/ \E w \in Waiters : WaitSteps(w) \/ SpuriousWake(w) \/ JtLoop(w)
    \/ RequestStop("r1")
    \/ \E t \in Notifiers : PushItem(t) \/ PushNotify(t)

\* Fair scheduling of the steps of the calls in progress and of the thread's
\* function; nothing forces the destruction, a join, a detach, a request_stop
\* from the copy of the source, or a push.
SpecJt ==
    /\ Init
    /\ [][NextJt]_vars
    /\ \A w \in Waiters : WF_vars(WaitSteps(w)) /\ WF_vars(JtLoop(w))
    /\ \A j \in JThreads : WF_vars(RequestStopRest(j)) /\ WF_vars(JtDtorJoin(j))
    /\ WF_vars(RequestStopRest("r1"))
    /\ \A t \in Notifiers : WF_vars(PushNotify(t))

\* the destructor of a joinable jthread is between its request_stop and the
\* end of its join
InDtor(j) == pc[j] \in {"rs_lock", "rs_exec", "rs_cb", "rs_ret"}

\* C20: the destructor of a joinable jthread requests the stop before it
\* joins (while it runs the stop is requested on the source's state, and when
\* it has joined the thread's function has returned), and it completes: the
\* function observes the stop, returns, and the join ends.  The destruction
\* of a jthread that is not joinable is one step that requests no stop and
\* joins nothing.
C20_DestructorStopsAndJoins ==
    /\ [](\A j \in JThreads :
            /\ InDtor(j) => stop_requested(j)
            /\ (pc[j] = "jt_destroyed" /\ calls[j] > 0)
                   => (stop_requested(j) /\ \A w \in Waiters : pc[w] = "jt_exit"))
    /\ \A j \in JThreads : InDtor(j) ~> (pc[j] = "jt_destroyed")
    /\ [][\A j \in JThreads :
             (~joinable(j) /\ pc[j] = "idle" /\ pc'[j] # "idle")
                => /\ pc'[j] = "jt_destroyed"
                   /\ m_stop_requested' = m_stop_requested
                   /\ calls' = calls
                   /\ m_thread' = m_thread]_vars

\* the jthread was destroyed while its function was blocked in wait_pop: the
\* destructor's request_stop ran the wait's callback, the function returned
\* and the join ended
C20_Witness ==
    /\ pc["j1"] = "jt_destroyed"
    /\ calls["j1"] = 1
    /\ calls["r1"] = 0
    /\ started["w1"] = 1
    /\ pc["w1"] = "jt_exit"

\* ------------------------------------------------- jthread after detach
\* jthread::request_stop on a handle that was joined or detached:
\* return m_stop.request_stop()
JtRequestStop(j) ==
    /\ ~joinable(j)
    /\ RequestStopStore(j)

\* The jthread of SpecJt whose owner also calls request_stop() on the handle
\* after a join or a detach.
NextDetach ==
    \/ \E j \in JThreads : \/ JtDtorStop(j)
                            \/ RequestStopRest(j)
                            \/ JtDtorJoin(j)
                            \/ JtDtorNotJoinable(j)
                            \/ JtJoin(j)
                            \/ JtDetach(j)
                            \/ JtRequestStop(j)
    \/ \E w \in Waiters : WaitSteps(w) \/ SpuriousWake(w) \/ JtLoop(w)
    \/ RequestStop("r1")
    \/ \E t \in Notifiers : PushItem(t) \/ PushNotify(t)

SpecDetach == Init /\ [][NextDetach]_vars

\* the handle of j was detached: detach is the only operation that leaves
\* m_stop without a stop state
Detached(j) == m_state[j] = null

\* C21: a detached handle is not joinable and its source has no stop state;
\* as long as the copy of the source held by r1 requests nothing, the token
\* of the detached thread sees no stop; every request_stop() completed on
\* the detached handle returns false and leaves every stop flag as it was;
\* and destroying the detached handle is one step that requests no stop and
\* joins nothing.
C21_DetachedHandle ==
    /\ [](\A j \in JThreads :
            Detached(j) =>
                /\ ~joinable(j)
                /\ ~stop_possible(j)
                /\ (calls["r1"] = 0 /\ pc["r1"] = "idle")
                       => \A w \in Waiters : ~stop_requested(w))
    /\ [][\A j \in JThreads :
             (Detached(j) /\ calls'[j] # calls[j])
                => /\ retval'[j] = FALSE
                   /\ m_stop_requested' = m_stop_requested]_vars
    /\ [][\A j \in JThreads :
             (Detached(j) /\ pc[j] # "jt_destroyed" /\ pc'[j] = "jt_destroyed")
                => /\ m_stop_requested' = m_stop_requested
                   /\ calls' = calls
                   /\ m_thread' = m_thread]_vars

\* the handle was detached, request_stop() was called on it twice and it was
\* destroyed, and the detached thread still waits with no stop requested
C21_Witness ==
    /\ Detached("j1")
    /\ calls["j1"] = 2
    /\ ~retval["j1"]
    /\ pc["j1"] = "jt_destroyed"
    /\ pc["w1"] = "w_blocked"
    /\ ~stop_requested("w1")

\* ------------------------------------------- callbacks that throw
\* std::terminate was called: the program has ended
Terminated == \E t \in Threads : pc[t] = "terminated"

\* execute_callbacks: the callback entered by std::invoke throws.  Both
\* stop_state::request_stop and stop_source::request_stop are noexcept, so the
\* exception reaches a noexcept boundary and std::terminate is called with
\* the lock_guard on the list mutex still alive.
ExecuteCallbacksThrow(t) ==
    /\ pc[t] = "rs_cb"
    /\ m_callbacks[load(t)][idx[t]].fn \in Owners
    /\ pc' = [pc EXCEPT ![t] = "terminated"]
    /\ UNCHANGED <<stopVars, cvVars, ptrVars, m_thread>>

\* register_or_invoke: the action invoked inline throws.  The constructor is
\* noexcept(std::is_nothrow_constructible_v<Callback, C>): for a Callback
\* that is nothrow constructible std::terminate is called, otherwise the
\* exception leaves the constructor and no stop_callback exists.
CtorInlineThrow(t) ==
    /\ pc[t] = "ctor_run"
    /\ t \in Owners
    /\ \E nothrow \in BOOLEAN :
           pc' = [pc EXCEPT ![t] = IF nothrow THEN "terminated" ELSE "raised"]
    /\ UNCHANGED <<stopVars, cvVars, ptrVars, m_thread>>

\* register_or_invoke: the action invoked under the list lock throws.  With a
\* noexcept constructor std::terminate is called while lck is alive;
\* otherwise unwinding destroys lck and the exception leaves the constructor.
CtorLockedThrow(t) ==
    /\ pc[t] = "ctor_run_locked"
    /\ t \in Owners
    /\ \E nothrow \in BOOLEAN :
           IF nothrow
              THEN /\ pc' = [pc EXCEPT ![t] = "terminated"]
                   /\ UNCHANGED m_mut
              ELSE /\ pc' = [pc EXCEPT ![t] = "raised"]
                   /\ m_mut' = [m_mut EXCEPT ![load(t)] = NoThread]
    /\ UNCHANGED <<m_state, origin, nstates, m_stop_requested, m_callbacks,
                   m_current_callback_id, m_callback_id, idx, calls, retval,
                   started, finished, deregistered, snap, cvVars, ptrVars,
                   m_thread>>

\* a step of request_stop, or its callback throws
ThrowRequester(t) ==
    /\ ~Terminated
    /\ (RequestStop(t) \/ ExecuteCallbacksThrow(t))

\* a step of an owner of a stop_callback, or its action throws in the
\* constructor
ThrowOwner(t) ==
    /\ ~Terminated
    /\ \/ OwnerConstruct(t)
       \/ StopCallback(t)
       \/ OwnerDestroy(t)
       \/ CtorInlineThrow(t)
       \/ CtorLockedThrow(t)

\* The threads of Spec with callbacks that may throw; nothing runs after
\* std::terminate.
NextThrow ==
    \/ \E t \in Requesters : ThrowRequester(t)
    \/ \E t \in Owners : ThrowOwner(t)

SpecThrow == Init /\ [][NextThrow]_vars

\* C22 as stated: a callback that throws never ends the program, and a
\* thread to which the exception surfaced holds no list mutex.
C22_RaiseSurfaces ==
    /\ ~Terminated
    /\ \A t \in Threads : pc[t] = "raised" => \A s \in States : m_mut[s] # t

\* ------------------------------------------- order of the callbacks
\* Three stop_callbacks are constructed and destroyed on one state while two
\* sources request the stop.
NextOrder ==
    \/ \E t \in Requesters : RequestStop(t)
    \/ \E t \in CallbackOwners :
           OwnerConstruct(t) \/ StopCallback(t) \/ OwnerDestroy(t)

SpecOrder == Init /\ [][NextOrder]_vars

\* the ids of a list of callbacks increase from front to back
Ascending(list) ==
    \A i, k \in 1..Len(list) : i < k => list[i].id < list[k].id

\* list without the callback at position i
Without(list, i) == SubSeq(list, 1, i - 1) \o SubSeq(list, i + 1, Len(list))

\* C23: the list of a state holds its callbacks in the order of their
\* registration ids; a request_stop that runs the list has completed every
\* callback in front of its position and has entered none behind it, and the
\* one at its position only when it is invoking it; the list is empty when
\* request_stop returns; and a step that shortens a list without emptying it
\* removes one callback and leaves the others in their order.
C23_RegistrationOrder ==
    /\ [](\A s \in States : Ascending(m_callbacks[s]))
    /\ [](\A t \in Requesters :
            pc[t] \in {"rs_exec", "rs_cb"} =>
                LET list == m_callbacks[load(t)]
                IN \A k \in 1..Len(list) :
                       /\ k < idx[t] => finished[list[k].fn] = 1
                       /\ k > idx[t] => started[list[k].fn] = 0
                       /\ k = idx[t] =>
                              /\ finished[list[k].fn] = 0
                              /\ started[list[k].fn] = IF pc[t] = "rs_cb" THEN 1 ELSE 0)
    /\ [][\A t \in Requesters :
             (pc[t] = "rs_exec" /\ pc'[t] = "rs_ret")
                => m_callbacks'[load(t)] = << >>]_vars
    /\ [][\A s \in States :
             (Len(m_callbacks'[s]) < Len(m_callbacks[s]) /\ m_callbacks'[s] # << >>)
                => \E i \in 1..Len(m_callbacks[s]) :
                       m_callbacks'[s] = Without(m_callbacks[s], i)]_vars

\* three callbacks were registered, the second was deregistered, and
\* request_stop has completed the first and is invoking the third
C23_Witness ==
    /\ pc["r1"] = "rs_cb"
    /\ idx["r1"] = 2
    /\ Len(m_callbacks[1]) = 2
    /\ m_callbacks[1][1].id = 0
    /\ m_callbacks[1][2].id = 2
    /\ finished[m_callbacks[1][1].fn] = 1
    /\ started[m_callbacks[1][2].fn] = 1
    /\ \E o \in CallbackOwners : deregistered[o]

\* --------------------------------- the list after request_stop returned
\* C24: once a request_stop() on a state has returned, the state's list is
\* empty and no thread is about to register on it; every callback that got
\* into the list (also one registered between the store of the flag and the
\* drain) has run to its end unless it was deregistered; a stop_callback whose
\* construction starts afterwards enters its action inline at the unlocked
\* check; and no registration id is recorded afterwards.
C24_EmptyAfterReturn ==
    /\ [](\A s \in States :
            StopReturned(s) =>
                /\ m_callbacks[s] = << >>
                /\ \A o \in Owners :
                       m_state[o] = s =>
                           /\ pc[o] # "ctor_register"
                           /\ (m_callback_id[o] # nullopt /\ ~deregistered[o])
                                  => finished[o] = 1)
    /\ [][\A o \in Owners :
             (load(o) # null /\ StopReturned(load(o)))
                => /\ (pc[o] = "ctor" /\ pc'[o] # "ctor") => pc'[o] = "ctor_run"
                   /\ m_callback_id'[o] \in {m_callback_id[o], nullopt}
                   /\ m_callbacks'[load(o)] = << >>]_vars

\* a request_stop has returned: the registered callback of o1 was drained,
\* the callback of o2 ran inline with no registration id, the list is empty
C24_Witness ==
    /\ StopReturned(1)
    /\ m_callback_id["o1"] # nullopt
    /\ finished["o1"] = 1
    /\ pc["o2"] = "alive"
    /\ m_callback_id["o2"] = nullopt
    /\ finished["o2"] = 1
    /\ m_callbacks[1] = << >>

\* ------------------------------------------- callbacks that re-enter
\* the owner whose callback calls request_stop() on the state it is
\* registered on, and the owner whose callback constructs and destroys
\* another stop_callback on that state
Reentrant == "o1"
Nesting   == "o2"

\* thread t is running the callback of owner o with the list mutex held: in
\* the range-for of execute_callbacks, or in the else branch of the locked
\* re-check of register_or_invoke
InvokesLocked(t, o) ==
    \/ pc[t] = "rs_cb" /\ m_callbacks[load(t)][idx[t]].fn = o
    \/ pc[t] = "ctor_run_locked" /\ t = o

\* The callback calls request_stop(): the flag is stored again and
\* lock_guard{m_mut} locks a std::mutex the thread already owns.  That is
\* undefined: the thread blocks forever, or lock() throws inside the noexcept
\* request_stop and std::terminate is called.
CallbackRequestStop(t) ==
    /\ InvokesLocked(t, Reentrant)
    /\ m_mut[load(t)] = t
    /\ m_stop_requested' = [m_stop_requested EXCEPT ![load(t)] = TRUE]
    /\ \E outcome \in {"cb_rs_lock", "terminated"} :
           pc' = [pc EXCEPT ![t] = outcome]
    /\ UNCHANGED <<m_state, origin, nstates, m_mut, m_callbacks,
                   m_current_callback_id, m_callback_id, idx, calls, retval,
                   started, finished, deregistered, snap, cvVars, ptrVars,
                   m_thread>>

\* The callback declares a stop_callback (with the action of o3) on the same
\* state and lets it go out of scope: the flag is set, so register_or_invoke
\* invokes the action inline at the unlocked check and returns nullopt, and
\* the destructor finds no id; no mutex is taken.
CallbackNested(t) ==
    /\ InvokesLocked(t, Nesting)
    /\ state_stop_requested(load(t))
    /\ finished["o3"] = 0
    /\ started' = [started EXCEPT !["o3"] = @ + 1]
    /\ finished' = [finished EXCEPT !["o3"] = @ + 1]
    /\ UNCHANGED <<pc, m_state, origin, nstates, m_stop_requested, m_mut,
                   m_callbacks, m_current_callback_id, m_callback_id, idx, calls,
                   retval, deregistered, snap, cvVars, ptrVars, m_thread>>

\* The threads of Spec with the two callbacks that re-enter the stop state.
NextReentrant ==
    \/ \E t \in Requesters :
           RequestStop(t) \/ CallbackRequestStop(t) \/ CallbackNested(t)
    \/ \E t \in Owners :
           \/ OwnerConstruct(t)
           \/ StopCallback(t)
           \/ OwnerDestroy(t)
           \/ CallbackRequestStop(t)
           \/ CallbackNested(t)

SpecReentrant == Init /\ [][NextReentrant]_vars

\* C25 as stated: no thread that runs a callback is left waiting for the
\* list mutex it holds itself, and none ends the program.
C25_CallbackCompletes ==
    \A t \in Threads : pc[t] \notin {"cb_rs_lock", "terminated"}

\* ------------------------------------------------- swap with no other thread
\* One thread swaps the two distinct handles, a.swap(b) or b.swap(a), again
\* and again; nothing else touches them.
NextSolo ==
    \/ \E x, y \in Handles : x # y /\ SwapCall("s1", x, y)
    \/ SwapLoadThis("s1")
    \/ SwapLoadOther("s1")
    \/ SwapCas1("s1")
    \/ SwapCas2("s1")
    \/ SwapRollback("s1")

SpecSolo == InitPtr /\ [][NextSolo]_vars

\* C26 as stated: whenever the only thread is between two swaps the handles
\* hold their pointees exchanged once per completed swap, whatever the weak
\* compare-exchanges did.
C26_SoloSwap ==
    pc["s1"] = "idle" => m_ptr = Swapped(swaps["s1"])

\* ------------------------------------------------------ concurrent swaps
\* Two threads swap the handles; nothing stores, exchanges or assigns.
NextSwapOnly ==
    \E t \in Swappers :
        \/ \E x, y \in Handles : SwapCall(t, x, y)
        \/ SwapLoadThis(t)
        \/ SwapLoadOther(t)
        \/ SwapCas1(t)
        \/ SwapCas2(t)
        \/ SwapRollback(t)

SpecSwapOnly == InitPtr /\ [][NextSwapOnly]_vars

\* how many handles hold each pointee in the assignment f of pointees to
\* handles
HeldBy(f) == [p \in Pointees |-> Cardinality({h \in Handles : f[h] = p})]

\* C27 as stated: when every swap that was called has completed, each
\* pointee is held by as many handles as at the start.
C27_SwapsPermute ==
    (\A t \in Swappers : pc[t] = "idle") => HeldBy(m_ptr) = HeldBy(init_ptr)

\* ------------------------------------------------- moving and swapping jthreads
\* j1 was constructed with the function of w1 and owns the stop state; j2 is
\* jthread{}: no thread, stop_source{ nostopstate }.
InitMove ==
    /\ pc = [t \in Threads |-> "idle"]
    /\ m_state = [t \in Threads |-> IF t = "j2" THEN null ELSE 1]
    /\ origin = [t \in Threads |-> "r1"]
    /\ nstates = 1
    /\ m_ptr = [h \in Handles |-> null]
    /\ InitRest

\* the thread that owns the jthread objects is in no operation on another
\* jthread than j
Quiet(j) == \A k \in JHandles \ {j} : pc[k] \in {"idle", "jt_destroyed"}

\* dst = std::move(src), the defaulted move assignment: first
\* std::thread::operator=(thread&&), which calls std::terminate when dst is
\* joinable; then stop_source's defaulted move assignment, which ends in
\* lock_free_shared_ptr::operator=(&&): exchange src with null, store in dst.
JtMoveAssign(dst, src) ==
    /\ dst # src
    /\ pc[dst] = "idle"
    /\ pc[src] = "idle"
    /\ IF joinable(dst)
          THEN /\ pc' = [pc EXCEPT ![dst] = "terminated"]
               /\ UNCHANGED <<m_thread, m_state>>
          ELSE /\ m_thread' = [m_thread EXCEPT ![dst] = m_thread[src],
                                                ![src] = NoThread]
               /\ m_state' = [m_state EXCEPT ![dst] = m_state[src], ![src] = null]
               /\ UNCHANGED pc
    /\ UNCHANGED <<origin, nstates, m_stop_requested, m_mut, m_callbacks,
                   m_current_callback_id, m_callback_id, idx, calls, retval,
                   started, finished, deregistered, snap, cvVars, ptrVars>>

\* jthread dst{ std::move(src) } in the place of a destroyed jthread, the
\* defaulted move constructor: std::thread's move constructor, and
\* lock_free_shared_ptr(lock_free_shared_ptr&&): exchange src with null.
JtMoveConstruct(dst, src) ==
    /\ dst # src
    /\ pc[dst] = "jt_destroyed"
    /\ pc[src] = "idle"
    /\ m_thread' = [m_thread EXCEPT ![dst] = m_thread[src], ![src] = NoThread]
    /\ m_state' = [m_state EXCEPT ![dst] = m_state[src], ![src] = null]
    /\ pc' = [pc EXCEPT ![dst] = "idle"]
    /\ UNCHANGED <<origin, nstates, m_stop_requested, m_mut, m_callbacks,
                   m_current_callback_id, m_callback_id, idx, calls, retval,
                   started, finished, deregistered, snap, cvVars, ptrVars>>

\* jthread::swap: m_thread.swap(other.m_thread); m_stop.swap(other.m_stop).
\* The second ends in lock_free_shared_ptr::swap, which run by one thread
\* either exchanges the two pointers or, after a failed rollback, leaves both
\* handles with the state this held.
JtSwap(this, other) ==
    /\ this # other
    /\ pc[this] = "idle"
    /\ pc[other] = "idle"
    /\ m_thread' = [m_thread EXCEPT ![this] = m_thread[other],
                                    ![other] = m_thread[this]]
    /\ \E exchanged \in BOOLEAN :
           m_state' = [m_state EXCEPT
                          ![this] = IF exchanged THEN m_state[other] ELSE m_state[this],
                          ![other] = m_state[this]]
    /\ UNCHANGED <<pc, origin, nstates, m_stop_requested, m_mut, m_callbacks,
                   m_current_callback_id, m_callback_id, idx, calls, retval,
                   started, finished, deregistered, snap, cvVars, ptrVars>>

\* an operation of the owning thread on jthread j
MoveOwner(j) ==
    /\ ~Terminated
    /\ \/ Quiet(j) /\ JtDtorStop(j)
       \/ RequestStopRest(j)
       \/ JtDtorJoin(j)
       \/ Quiet(j) /\ JtDtorNotJoinable(j)
       \/ Quiet(j) /\ JtJoin(j)
       \/ Quiet(j) /\ JtDetach(j)
       \/ \E k \in JHandles : \/ JtMoveAssign(j, k)
                               \/ JtMoveConstruct(j, k)
                               \/ JtSwap(j, k)

\* a step of the function the jthread runs
MoveWorker(w) ==
    /\ ~Terminated
    /\ (WaitSteps(w) \/ SpuriousWake(w) \/ JtLoop(w))

\* Two jthread objects owned by one thread, which moves, swaps, joins,
\* detaches and destroys them while the function of the first one runs.
NextMove ==
    \/ \E j \in JHandles : MoveOwner(j)
    \/ \E w \in Waiters : MoveWorker(w)

SpecMove == InitMove /\ [][NextMove]_vars

\* C28 as stated: no operation on a jthread ends the program; in particular
\* a move assignment onto a jthread that is joinable does not.
C28_NoTerminate ==
    \A j \in JHandles : pc[j] # "terminated"

====
